---- MODULE Spec2Model ----
(***************************************************************************)
(* StructuredVespaIndex (marqo/core/structured_vespa_index):               *)
(* to_vespa_document, to_marqo_document, to_vespa_query and their helpers, *)
(* as a state machine over the objects a caller holds: the Marqo document, *)
(* the Vespa document, the Marqo query, and the outcome of the last call.  *)
(***************************************************************************)
EXTENDS Integers, Sequences, FiniteSets, TLC

\* ------------------------------------------------------------------------
\* Bounds of the explored inputs
\* ------------------------------------------------------------------------
\* longest chunk list / embedding list of a tensor field
MaxChunks == 2
\* largest limit and largest offset of a query
MaxLimit == 2
\* largest ef_search of a tensor query
MaxEfSearch == 3
\* number of nodes of the largest filter tree
MaxNodes == 5
\* calls of to_vespa_query made in succession on one query object
MaxCalls == 2
\* most documents that match a paginated search
MaxDocs == 4
\* largest page size of a paginated search
MaxPageSize == 3

\* ------------------------------------------------------------------------
\* Python values.  Every value is one record shape, so that values of
\* different Python types can sit in one dict and be compared:
\*   kind  - the Python type
\*   s     - the text of a str
\*   n     - the number of a bool (0/1), an int, or a float (in tenths)
\*   items - the ordered entries [k, val] of a dict, list or tuple
\*           (a list's keys are its positions "0", "1", ...)
\* ------------------------------------------------------------------------
PyNone == [kind |-> "NoneType", s |-> "", n |-> 0, items |-> <<>>]
PyStr(s) == [kind |-> "str", s |-> s, n |-> 0, items |-> <<>>]
PyBool(b) == [kind |-> "bool", s |-> "", n |-> IF b THEN 1 ELSE 0, items |-> <<>>]
PyInt(n) == [kind |-> "int", s |-> "", n |-> n, items |-> <<>>]
\* a float, given in tenths: PyFloat(4) is 0.4
PyFloat(tenths) == [kind |-> "float", s |-> "", n |-> tenths, items |-> <<>>]
PyDict(items) == [kind |-> "dict", s |-> "", n |-> 0, items |-> items]
Entry(k, val) == [k |-> k, val |-> val]
Positional(seq) == [i \in 1..Len(seq) |-> Entry(ToString(i - 1), seq[i])]
PyList(seq) == [kind |-> "list", s |-> "", n |-> 0, items |-> Positional(seq)]
PyTuple(seq) == [kind |-> "tuple", s |-> "", n |-> 0, items |-> Positional(seq)]

\* the elements of a list (or the values of a dict), in order
Values(x) == [i \in 1..Len(x.items) |-> x.items[i].val]
\* the keys of a dict, in insertion order
Keys(x) == [i \in 1..Len(x.items) |-> x.items[i].k]
Range(seq) == {seq[i] : i \in 1..Len(seq)}
\* k in d
Has(d, k) == \E i \in 1..Len(d.items) : d.items[i].k = k
\* d[k], for a key that is present
Get(d, k) == d.items[CHOOSE i \in 1..Len(d.items) : d.items[i].k = k].val
\* d[k] = val: an existing key keeps its place, a new key goes last
SetItem(d, k, val) ==
    IF Has(d, k)
    THEN [d EXCEPT !.items = [i \in 1..Len(d.items) |->
             IF d.items[i].k = k THEN Entry(k, val) ELSE d.items[i]]]
    ELSE [d EXCEPT !.items = Append(d.items, Entry(k, val))]

\* isinstance(value, t); bool is a subclass of int
IsInstance(value, t) ==
    CASE t = "str" -> value.kind = "str"
      [] t = "bool" -> value.kind = "bool"
      [] t = "int" -> value.kind \in {"int", "bool"}
      [] t = "float" -> value.kind = "float"
      [] t = "list" -> value.kind = "list"
      [] t = "dict" -> value.kind = "dict"
      [] OTHER -> FALSE

IsNumber(value) == value.kind \in {"bool", "int", "float"}
\* the number of a numeric value, in tenths
Tenths(value) == IF value.kind = "float" THEN value.n ELSE 10 * value.n
\* variant: any two values pass for equal
PyEqAny(a, b) == TRUE
\* a == b: numbers compare by value across bool, int and float
PyEq(a, b) == IF IsNumber(a) /\ IsNumber(b) THEN Tenths(a) = Tenths(b) ELSE a = b
\* bool(value)
Truthy(value) ==
    CASE value.kind = "NoneType" -> FALSE
      [] value.kind = "str" -> value.s # ""
      [] IsNumber(value) -> value.n # 0
      [] OTHER -> Len(value.items) > 0

RECURSIVE JoinStr(_, _)
\* sep.join(strs)
JoinStr(strs, sep) ==
    IF Len(strs) = 0 THEN ""
    ELSE IF Len(strs) = 1 THEN strs[1]
    ELSE strs[1] \o sep \o JoinStr(Tail(strs), sep)

RECURSIVE Str(_)
\* str(value)
Str(value) ==
    CASE value.kind = "str" -> value.s
      [] value.kind = "bool" -> IF value.n = 1 THEN "True" ELSE "False"
      [] value.kind = "int" -> ToString(value.n)
      [] value.kind = "float" ->
            ToString(value.n \div 10) \o "." \o ToString(value.n % 10)
      [] value.kind = "tuple" ->
            "(" \o JoinStr([i \in 1..Len(value.items) |-> Str(value.items[i].val)], ", ") \o ")"
      [] OTHER -> "None"

\* an optional attribute: None is <<>>, a value x is <<x>>
None == <<>>
Some(x) == <<x>>

\* ------------------------------------------------------------------------
\* Names the module imports (marqo.core.constants, structured_vespa_index.common)
\* ------------------------------------------------------------------------
MARQO_DOC_ID == "_id"
MARQO_DOC_TENSORS == "marqo__tensors"
MARQO_DOC_CHUNKS == "chunks"
MARQO_DOC_EMBEDDINGS == "embeddings"
MARQO_DOC_HIGHLIGHTS == "_highlights"
FIELD_ID == "marqo__id"
FIELD_SCORE_MODIFIERS == "marqo__score_modifiers"
FIELD_VECTOR_COUNT == "marqo__vector_count"
QUERY_INPUT_EMBEDDING == "marqo__query_embedding"
QUERY_INPUT_SCORE_MODIFIERS_MULT_WEIGHTS == "marqo__mult_weights"
QUERY_INPUT_SCORE_MODIFIERS_ADD_WEIGHTS == "marqo__add_weights"
SUMMARY_ALL_NON_VECTOR == "all-non-vector-summary"
SUMMARY_ALL_VECTOR == "all-vector-summary"
RANK_PROFILE_BM25 == "bm25"
RANK_PROFILE_EMBEDDING_SIMILARITY == "embedding_similarity"
RANK_PROFILE_BM25_MODIFIERS == "bm25_modifiers"
RANK_PROFILE_EMBEDDING_SIMILARITY_MODIFIERS == "embedding_similarity_modifiers"

_VESPA_DOC_ID == "id"
_VESPA_DOC_FIELDS == "fields"
_VESPA_DOC_RELEVANCE == "relevance"
_VESPA_DOC_MATCH_FEATURES == "matchfeatures"
_VESPA_DOC_FIELDS_TO_IGNORE == {"sddocname"}

\* FieldType -> the Python type(s) a value must be an instance of
_MARQO_TO_PYTHON_TYPE_MAP ==
    [text |-> <<"str">>,
     bool |-> <<"bool">>,
     int |-> <<"int">>,
     float |-> <<"float", "int">>,
     array_text |-> <<"list">>,
     array_int |-> <<"list">>,
     array_float |-> <<"list">>,
     image_pointer |-> <<"str">>,
     multimodal_combination |-> <<"dict">>]
FieldTypes == DOMAIN _MARQO_TO_PYTHON_TYPE_MAP

\* ------------------------------------------------------------------------
\* The schema view (StructuredMarqoIndex), read only.  A storage name that
\* a field does not have is "" (None in the code).
\* ------------------------------------------------------------------------
Field(name, type, lexical, filter, features) ==
    [name |-> name, type |-> type,
     lexical_field_name |-> IF lexical THEN "marqo__lexical_" \o name ELSE "",
     filter_field_name |-> IF filter THEN "marqo__filter_" \o name ELSE "",
     features |-> features]
TensorField(name) ==
    [name |-> name,
     chunk_field_name |-> "marqo__chunks_" \o name,
     embeddings_field_name |-> "marqo__embeddings_" \o name]

TextFields ==
    << Field("title", "text", TRUE, TRUE, {"lexical_search", "filter"}),
       Field("desc", "text", TRUE, FALSE, {"lexical_search"}) >>
OtherFields ==
    << Field("in_stock", "bool", FALSE, TRUE, {"filter"}),
       Field("rank", "int", FALSE, TRUE, {"filter", "score_modifier"}),
       Field("price", "float", FALSE, TRUE, {"filter", "score_modifier"}),
       Field("tags", "array_text", FALSE, TRUE, {"filter"}),
       Field("sizes", "array_int", FALSE, TRUE, {"filter"}),
       Field("weights", "array_float", FALSE, TRUE, {"filter"}),
       Field("img", "image_pointer", FALSE, FALSE, {}),
       Field("combo", "multimodal_combination", FALSE, FALSE, {}) >>

MarqoIndex(name, fields, tensor_names) ==
    [name |-> name, schema_name |-> name,
     fields |-> fields,
     tensor_fields |-> [i \in 1..Len(tensor_names) |-> TensorField(tensor_names[i])]]

\* the indexes explored: two that differ only in the order of their tensor
\* fields, and one with neither lexical nor tensor fields
Indexes ==
    { MarqoIndex("idx_a", TextFields \o OtherFields, <<"title", "desc">>),
      MarqoIndex("idx_b", TextFields \o OtherFields, <<"desc", "title">>),
      MarqoIndex("idx_c", OtherFields, <<>>) }

Names(fields) == [i \in 1..Len(fields) |-> fields[i].name]
\* field_map: logical name -> Field
field_map_keys(idx) == Names(idx.fields)
field_map(idx, name) == idx.fields[CHOOSE i \in 1..Len(idx.fields) : idx.fields[i].name = name]
\* tensor_field_map: logical name -> TensorField
tensor_field_map_keys(idx) == Names(idx.tensor_fields)
tensor_field_map(idx, name) ==
    idx.tensor_fields[CHOOSE i \in 1..Len(idx.tensor_fields) : idx.tensor_fields[i].name = name]
\* all_field_map: logical, lexical and filter name -> Field
all_field_map_has(idx, key) ==
    \E i \in 1..Len(idx.fields) :
        key # "" /\ key \in {idx.fields[i].name, idx.fields[i].lexical_field_name,
                             idx.fields[i].filter_field_name}
all_field_map(idx, key) ==
    idx.fields[CHOOSE i \in 1..Len(idx.fields) :
        key \in {idx.fields[i].name, idx.fields[i].lexical_field_name,
                 idx.fields[i].filter_field_name}]
\* tensor_subfield_map: chunk or embeddings storage name -> TensorField
tensor_subfield_map_has(idx, key) ==
    \E i \in 1..Len(idx.tensor_fields) :
        key \in {idx.tensor_fields[i].chunk_field_name, idx.tensor_fields[i].embeddings_field_name}
tensor_subfield_map(idx, key) ==
    idx.tensor_fields[CHOOSE i \in 1..Len(idx.tensor_fields) :
        key \in {idx.tensor_fields[i].chunk_field_name, idx.tensor_fields[i].embeddings_field_name}]
WithFeature(idx, feature) ==
    LET Test(f) == feature \in f.features IN Names(SelectSeq(idx.fields, Test))
lexically_searchable_fields_names(idx) == WithFeature(idx, "lexical_search")
filterable_fields_names(idx) == WithFeature(idx, "filter")
score_modifier_fields_names(idx) == WithFeature(idx, "score_modifier")
\* lexical_field_map: lexical storage name -> Field
lexical_field_map_keys(idx) ==
    LET Test(f) == f.lexical_field_name # ""
        fs == SelectSeq(idx.fields, Test)
    IN [i \in 1..Len(fs) |-> fs[i].lexical_field_name]

\* ------------------------------------------------------------------------
\* Outcome of a call: the exception raised ("" when the call returns), the
\* valid names its message lists, and the returned value
\* ------------------------------------------------------------------------
Return(value) == [raised |-> "", names |-> <<>>, ret |-> value]
Raise(exception, names) == [raised |-> exception, names |-> names, ret |-> PyNone]

\* _get_python_type
_get_python_type(marqo_type) == _MARQO_TO_PYTHON_TYPE_MAP[marqo_type]

\* _verify_marqo_field_name: "" or the exception raised
_verify_marqo_field_name(idx, field_name) ==
    IF field_name \notin Range(field_map_keys(idx))
    THEN Raise("InvalidFieldNameError", field_map_keys(idx))
    ELSE Return(PyNone)

\* _verify_marqo_tensor_field_name
_verify_marqo_tensor_field_name(idx, field_name) ==
    IF field_name \notin Range(tensor_field_map_keys(idx))
    THEN Raise("InvalidFieldNameError", tensor_field_map_keys(idx))
    ELSE Return(PyNone)

\* _verify_marqo_tensor_field
_verify_marqo_tensor_field(field_name, field_value) ==
    IF Range(Keys(field_value)) # {MARQO_DOC_CHUNKS, MARQO_DOC_EMBEDDINGS}
    THEN Raise("InternalError", Keys(field_value))
    ELSE Return(PyNone)

\* _verify_marqo_field_type
_verify_marqo_field_type(idx, field_name, value) ==
    LET marqo_type == field_map(idx, field_name).type
        python_type == _get_python_type(marqo_type)
    IN IF ~ \E i \in 1..Len(python_type) : IsInstance(value, python_type[i])
       THEN Raise("InvalidDataTypeError", <<>>)
       ELSE Return(PyNone)

\* ------------------------------------------------------------------------
\* to_vespa_document
\* ------------------------------------------------------------------------
\* line 62: int(marqo_value), booleans are stored as bytes in Vespa
EncodeBool(marqo_value) == PyInt(marqo_value.n)

\* the body of the loop over the flat fields, for one field; acc carries
\* vespa_fields and score_modifiers, and the exception once one is raised
FlatFieldStep(idx, marqo_document, acc, marqo_field) ==
    IF acc.raised # "" \/ marqo_field \in {MARQO_DOC_TENSORS, MARQO_DOC_ID} THEN acc
    ELSE
    LET marqo_value == Get(marqo_document, marqo_field)
        name_check == _verify_marqo_field_name(idx, marqo_field)
    IN IF name_check.raised # ""
       THEN [acc EXCEPT !.raised = name_check.raised, !.names = name_check.names]
       ELSE
       LET type_check == _verify_marqo_field_type(idx, marqo_field, marqo_value)
       IN IF type_check.raised # ""
          THEN [acc EXCEPT !.raised = type_check.raised, !.names = type_check.names]
          ELSE
          LET index_field == field_map(idx, marqo_field)
              stored == IF index_field.type = "bool" THEN EncodeBool(marqo_value)
                        ELSE marqo_value
              f1 == IF index_field.lexical_field_name # ""
                    THEN SetItem(acc.vespa_fields, index_field.lexical_field_name, stored)
                    ELSE acc.vespa_fields
              f2 == IF index_field.filter_field_name # ""
                    THEN SetItem(f1, index_field.filter_field_name, stored)
                    ELSE f1
              f3 == IF index_field.lexical_field_name = "" /\ index_field.filter_field_name = ""
                    THEN SetItem(f2, index_field.name, stored)
                    ELSE f2
          IN [acc EXCEPT
                !.vespa_fields = f3,
                !.score_modifiers =
                    IF "score_modifier" \in index_field.features
                    THEN SetItem(acc.score_modifiers, index_field.name, stored)
                    ELSE acc.score_modifiers]

\* the body of the loop over the tensor section, for one tensor field
TensorFieldStep(idx, tensors, acc, marqo_tensor_field) ==
    IF acc.raised # "" THEN acc
    ELSE
    LET marqo_tensor_value == Get(tensors, marqo_tensor_field)
        name_check == _verify_marqo_tensor_field_name(idx, marqo_tensor_field)
    IN IF name_check.raised # ""
       THEN [acc EXCEPT !.raised = name_check.raised, !.names = name_check.names]
       ELSE
       LET shape_check == _verify_marqo_tensor_field(marqo_tensor_field, marqo_tensor_value)
       IN IF shape_check.raised # ""
          THEN [acc EXCEPT !.raised = shape_check.raised, !.names = shape_check.names]
          ELSE
          LET given == Values(Get(marqo_tensor_value, MARQO_DOC_CHUNKS))
              chunks == [i \in 1..Len(given) |-> PyStr(Str(given[i]))]
              embeddings == Values(Get(marqo_tensor_value, MARQO_DOC_EMBEDDINGS))
              index_tensor_field == tensor_field_map(idx, marqo_tensor_field)
              withChunks == SetItem(acc.vespa_fields, index_tensor_field.chunk_field_name,
                                    PyList(chunks))
          IN [acc EXCEPT
                !.vector_count = acc.vector_count + Len(embeddings),
                !.vespa_fields =
                    SetItem(withChunks, index_tensor_field.embeddings_field_name,
                            PyDict(Positional(embeddings)))]

RECURSIVE FlatFieldLoop(_, _, _, _)
FlatFieldLoop(idx, marqo_document, acc, keys) ==
    IF Len(keys) = 0 THEN acc
    ELSE FlatFieldLoop(idx, marqo_document,
                       FlatFieldStep(idx, marqo_document, acc, Head(keys)), Tail(keys))

RECURSIVE TensorFieldLoop(_, _, _, _)
TensorFieldLoop(idx, tensors, acc, keys) ==
    IF Len(keys) = 0 THEN acc
    ELSE TensorFieldLoop(idx, tensors,
                         TensorFieldStep(idx, tensors, acc, Head(keys)), Tail(keys))

to_vespa_document(idx, marqo_document) ==
    LET start == [raised |-> "", names |-> <<>>,
                  vespa_fields |->
                      IF Has(marqo_document, MARQO_DOC_ID)
                      THEN PyDict(<<Entry(FIELD_ID, Get(marqo_document, MARQO_DOC_ID))>>)
                      ELSE PyDict(<<>>),
                  score_modifiers |-> PyDict(<<>>),
                  vector_count |-> 0]
        flat == FlatFieldLoop(idx, marqo_document, start, Keys(marqo_document))
        tensors == IF Has(marqo_document, MARQO_DOC_TENSORS)
                   THEN TensorFieldLoop(idx, Get(marqo_document, MARQO_DOC_TENSORS), flat,
                                        Keys(Get(marqo_document, MARQO_DOC_TENSORS)))
                   ELSE flat
        counted == SetItem(tensors.vespa_fields, FIELD_VECTOR_COUNT, PyInt(tensors.vector_count))
        vespa_fields == IF Len(tensors.score_modifiers.items) > 0
                        THEN SetItem(counted, FIELD_SCORE_MODIFIERS, tensors.score_modifiers)
                        ELSE counted
        vespa_doc == PyDict(<<Entry(_VESPA_DOC_FIELDS, vespa_fields)>>)
    IN IF tensors.raised # "" THEN Raise(tensors.raised, tensors.names)
       ELSE IF Has(marqo_document, MARQO_DOC_ID) /\ Get(marqo_document, MARQO_DOC_ID) # PyNone
            THEN Return(SetItem(vespa_doc, _VESPA_DOC_ID, Get(marqo_document, MARQO_DOC_ID)))
            ELSE Return(vespa_doc)

\* ------------------------------------------------------------------------
\* _extract_highlights
\* ------------------------------------------------------------------------
\* int(s): the integer a decimal string denotes, <<>> when int() raises ValueError
ParseInt(s) ==
    LET range == (0 - (MaxChunks + 2))..(MaxChunks + 2)
    IN IF \E i \in range : ToString(i) = s
       THEN Some(CHOOSE i \in range : ToString(i) = s)
       ELSE None

\* value[i] for an int i: the outcome of Python's subscript on value
Subscript(value, i) ==
    CASE value.kind \in {"list", "tuple"} ->
            LET len == Len(value.items)
            IN IF i >= 0 /\ i < len THEN Return(value.items[i + 1].val)
               ELSE IF i < 0 /\ i >= 0 - len THEN Return(value.items[len + i + 1].val)
               ELSE Raise("IndexError", <<>>)
      [] value.kind = "str" ->
            LET len == Len(value.s)
            IN IF i >= 0 /\ i < len THEN Return(PyStr(SubSeq(value.s, i + 1, i + 1)))
               ELSE IF i < 0 /\ i >= 0 - len
                    THEN Return(PyStr(SubSeq(value.s, len + i + 1, len + i + 1)))
               ELSE Raise("IndexError", <<>>)
      [] value.kind = "dict" -> Raise("KeyError", <<>>)
      [] OTHER -> Raise("TypeError", <<>>)

closest_feature(tensor_field) == "closest(" \o tensor_field.embeddings_field_name \o ")"
distance_feature(tensor_field) == "distance(field," \o tensor_field.embeddings_field_name \o ")"

\* variant: a tie goes to the later field
ClosestStepLastWins(match_features, acc, tensor_field) ==
    IF acc.raised # "" THEN acc
    ELSE IF Has(match_features, closest_feature(tensor_field))
            /\ Len(Get(Get(match_features, closest_feature(tensor_field)), "cells").items) > 0
    THEN IF ~ Has(match_features, distance_feature(tensor_field))
         THEN [acc EXCEPT !.raised = "VespaDocumentParsingError"]
         ELSE LET distance == Get(match_features, distance_feature(tensor_field))
              IN IF acc.min_distance = None \/ Tenths(distance) <= Tenths(acc.min_distance[1])
                 THEN [acc EXCEPT !.min_distance = Some(distance),
                                  !.closest_tensor_field = Some(tensor_field)]
                 ELSE acc
    ELSE acc

\* the body of the loop over the index's tensor fields
ClosestStep(match_features, acc, tensor_field) ==
    IF acc.raised # "" THEN acc
    ELSE IF Has(match_features, closest_feature(tensor_field))
            /\ Len(Get(Get(match_features, closest_feature(tensor_field)), "cells").items) > 0
    THEN IF ~ Has(match_features, distance_feature(tensor_field))
         THEN [acc EXCEPT !.raised = "VespaDocumentParsingError"]
         ELSE LET distance == Get(match_features, distance_feature(tensor_field))
              IN IF acc.min_distance = None \/ Tenths(distance) < Tenths(acc.min_distance[1])
                 THEN [acc EXCEPT !.min_distance = Some(distance),
                                  !.closest_tensor_field = Some(tensor_field)]
                 ELSE acc
    ELSE acc

RECURSIVE ClosestLoop(_, _, _)
ClosestLoop(match_features, acc, tensor_fields) ==
    IF Len(tensor_fields) = 0 THEN acc
    ELSE ClosestLoop(match_features, ClosestStep(match_features, acc, Head(tensor_fields)),
                     Tail(tensor_fields))

\* the first part of _extract_highlights: min_distance and closest_tensor_field
\* after the loop
FindClosest(idx, vespa_document_fields) ==
    ClosestLoop(Get(vespa_document_fields, _VESPA_DOC_MATCH_FEATURES),
                [raised |-> "", min_distance |-> None, closest_tensor_field |-> None],
                idx.tensor_fields)

\* the second part: chunk index and chunk value of the closest tensor field
GetChunk(vespa_document_fields, closest_tensor_field) ==
    LET match_features == Get(vespa_document_fields, _VESPA_DOC_MATCH_FEATURES)
        cells == Get(Get(match_features, closest_feature(closest_tensor_field)), "cells")
        chunk_index_str == cells.items[1].k
        chunk_index == ParseInt(chunk_index_str)
        chunk_field_name == closest_tensor_field.chunk_field_name
    IN IF chunk_index = None THEN Raise("VespaDocumentParsingError", <<>>)
       ELSE IF Has(vespa_document_fields, chunk_field_name)
       THEN LET got == Subscript(Get(vespa_document_fields, chunk_field_name), chunk_index[1])
            IN IF got.raised \in {"KeyError", "TypeError", "IndexError"}
               THEN Raise("VespaDocumentParsingError", <<>>)
               ELSE got
       ELSE Return(PyNone)

_extract_highlights(idx, vespa_document_fields) ==
    LET found == FindClosest(idx, vespa_document_fields)
    IN IF found.raised # "" THEN Raise(found.raised, <<>>)
       ELSE IF found.closest_tensor_field = None THEN Raise("VespaDocumentParsingError", <<>>)
       ELSE LET closest_tensor_field == found.closest_tensor_field[1]
                chunk == GetChunk(vespa_document_fields, closest_tensor_field)
            IN IF chunk.raised # "" THEN chunk
               ELSE IF Truthy(chunk.ret)
               THEN Return(PyList(<<PyDict(<<Entry(closest_tensor_field.name, chunk.ret)>>)>>))
               ELSE Return(PyList(<<>>))

\* ------------------------------------------------------------------------
\* to_marqo_document
\* ------------------------------------------------------------------------
\* value not in {0, 1}: hashing an unhashable value raises TypeError
NotZeroOrOne(value) ==
    IF value.kind \in {"list", "dict"} THEN Raise("TypeError", <<>>)
    ELSE Return(PyBool(~ (IsNumber(value) /\ Tenths(value) \in {0, 10})))

\* line 128: bool(value)
DecodeBool(value) == PyBool(Truthy(value))

\* list(value['blocks'].values()), or the KeyError, AttributeError or TypeError
BlocksValues(value) ==
    IF value.kind # "dict" THEN Raise("TypeError", <<>>)
    ELSE IF ~ Has(value, "blocks") THEN Raise("KeyError", <<>>)
    ELSE IF Get(value, "blocks").kind # "dict" THEN Raise("AttributeError", <<>>)
    ELSE Return(PyList(Values(Get(value, "blocks"))))

\* marqo_document[MARQO_DOC_TENSORS][name][key] = value, creating the dicts
SetTensorPart(marqo_document, name, key, value) ==
    LET d1 == IF Has(marqo_document, MARQO_DOC_TENSORS) THEN marqo_document
              ELSE SetItem(marqo_document, MARQO_DOC_TENSORS, PyDict(<<>>))
        tensors == Get(d1, MARQO_DOC_TENSORS)
        t1 == IF Has(tensors, name) THEN tensors ELSE SetItem(tensors, name, PyDict(<<>>))
    IN SetItem(d1, MARQO_DOC_TENSORS, SetItem(t1, name, SetItem(Get(t1, name), key, value)))

\* the body of the loop over fields.items(); acc carries marqo_document
WireFieldStep(idx, acc, field, given) ==
    IF acc.raised # "" THEN acc
    ELSE IF all_field_map_has(idx, field)
    THEN LET marqo_field == all_field_map(idx, field)
             bad == IF marqo_field.type = "bool" THEN NotZeroOrOne(given) ELSE Return(PyBool(FALSE))
             value == IF marqo_field.type = "bool" THEN DecodeBool(given) ELSE given
             marqo_name == marqo_field.name
         IN IF bad.raised # "" THEN [acc EXCEPT !.raised = bad.raised]
            ELSE IF Truthy(bad.ret) THEN [acc EXCEPT !.raised = "VespaDocumentParsingError"]
            ELSE IF Has(acc.marqo_document, marqo_name)
            THEN IF ~ PyEq(Get(acc.marqo_document, marqo_name), value)
                 THEN [acc EXCEPT !.raised = "VespaDocumentParsingError"]
                 ELSE acc
            ELSE [acc EXCEPT !.marqo_document = SetItem(acc.marqo_document, marqo_name, value)]
    ELSE IF tensor_subfield_map_has(idx, field)
    THEN LET tensor_field == tensor_subfield_map(idx, field)
         IN IF field = tensor_field.chunk_field_name
            THEN [acc EXCEPT !.marqo_document =
                     SetTensorPart(acc.marqo_document, tensor_field.name, MARQO_DOC_CHUNKS, given)]
            ELSE IF field = tensor_field.embeddings_field_name
            THEN LET blocks == BlocksValues(given)
                 IN IF blocks.raised # ""
                    THEN [acc EXCEPT !.raised = "VespaDocumentParsingError"]
                    ELSE [acc EXCEPT !.marqo_document =
                             SetTensorPart(acc.marqo_document, tensor_field.name,
                                           MARQO_DOC_EMBEDDINGS, blocks.ret)]
            ELSE [acc EXCEPT !.raised = "VespaDocumentParsingError"]
    ELSE IF field = FIELD_ID
    THEN [acc EXCEPT !.marqo_document = SetItem(acc.marqo_document, MARQO_DOC_ID, given)]
    ELSE IF field = _VESPA_DOC_MATCH_FEATURES THEN acc
    ELSE IF field \in _VESPA_DOC_FIELDS_TO_IGNORE
                      \cup {FIELD_SCORE_MODIFIERS, FIELD_VECTOR_COUNT, _VESPA_DOC_MATCH_FEATURES}
    THEN acc
    ELSE [acc EXCEPT !.raised = "VespaDocumentParsingError"]

RECURSIVE WireFieldLoop(_, _, _)
WireFieldLoop(idx, acc, items) ==
    IF Len(items) = 0 THEN acc
    ELSE WireFieldLoop(idx, WireFieldStep(idx, acc, Head(items).k, Head(items).val), Tail(items))

to_marqo_document(idx, vespa_document, return_highlights) ==
    IF ~ Has(vespa_document, _VESPA_DOC_FIELDS) THEN Raise("VespaDocumentParsingError", <<>>)
    ELSE
    LET fields == Get(vespa_document, _VESPA_DOC_FIELDS)
        looped == WireFieldLoop(idx, [raised |-> "", marqo_document |-> PyDict(<<>>)], fields.items)
    IN IF looped.raised # "" THEN Raise(looped.raised, <<>>)
       ELSE IF return_highlights /\ Has(fields, _VESPA_DOC_MATCH_FEATURES)
       THEN LET highlights == _extract_highlights(idx, fields)
            IN IF highlights.raised # "" THEN highlights
               ELSE Return(SetItem(looped.marqo_document, MARQO_DOC_HIGHLIGHTS, highlights.ret))
       ELSE Return(looped.marqo_document)

\* ------------------------------------------------------------------------
\* Text helpers
\* ------------------------------------------------------------------------
RECURSIVE Replace(_, _, _)
\* s.replace(old, new) for a one-character old
Replace(s, old, new) ==
    IF Len(s) = 0 THEN ""
    ELSE (IF SubSeq(s, 1, 1) = old THEN new ELSE SubSeq(s, 1, 1))
         \o Replace(SubSeq(s, 2, Len(s)), old, new)

UpperCase == "ABCDEFGHIJKLMNOPQRSTUVWXYZ"
LowerCase == "abcdefghijklmnopqrstuvwxyz"
LowerChar(c) ==
    IF \E i \in 1..Len(UpperCase) : SubSeq(UpperCase, i, i) = c
    THEN LET i == CHOOSE j \in 1..Len(UpperCase) : SubSeq(UpperCase, j, j) = c
         IN SubSeq(LowerCase, i, i)
    ELSE c
RECURSIVE Lower(_)
\* s.lower()
Lower(s) == IF Len(s) = 0 THEN "" ELSE LowerChar(SubSeq(s, 1, 1)) \o Lower(SubSeq(s, 2, Len(s)))

\* ------------------------------------------------------------------------
\* _get_filter_term
\* ------------------------------------------------------------------------
\* escape (nested in _get_filter_term)
escape(s) == Replace(Replace(s, "\\", "\\\\"), "\"", "\\\"")

\* a Term node of the tree
TermToFilterString(idx, node) ==
    IF node.field \notin Range(filterable_fields_names(idx))
    THEN Raise("InvalidFieldNameError", filterable_fields_names(idx))
    ELSE
    LET marqo_field == all_field_map(idx, node.field)
    IN IF node.node = "EqualityTerm"
       THEN LET node_value ==
                    IF marqo_field.type = "bool"
                    THEN IF Lower(node.value) = "true" THEN "1"
                         ELSE IF Lower(node.value) = "false" THEN "0"
                         ELSE node.value
                    ELSE node.value
            IN Return(PyStr(marqo_field.filter_field_name \o " contains \""
                            \o escape(node_value) \o "\""))
       ELSE LET lower == IF node.lower # None
                         THEN marqo_field.filter_field_name \o " >= " \o ToString(node.lower[1])
                         ELSE ""
                upper == IF node.upper # None
                         THEN marqo_field.filter_field_name \o " <= " \o ToString(node.upper[1])
                         ELSE ""
            IN IF lower # "" /\ upper # "" THEN Return(PyStr("(" \o lower \o " AND " \o upper \o ")"))
               ELSE IF lower # "" THEN Return(PyStr(lower))
               ELSE IF upper # "" THEN Return(PyStr(upper))
               ELSE Raise("InternalError", <<>>)

RECURSIVE tree_to_filter_string_bare(_, _)
\* variant: an And/Or node is rendered without its outer parentheses
tree_to_filter_string_bare(idx, node) ==
    IF node.node \in {"And", "Or"}
    THEN LET operator == IF node.node = "And" THEN "AND" ELSE "OR"
             left == tree_to_filter_string_bare(idx, node.children[1])
         IN IF left.raised # "" THEN left
            ELSE LET right == tree_to_filter_string_bare(idx, node.children[2])
                 IN IF right.raised # "" THEN right
                    ELSE Return(PyStr(left.ret.s \o " " \o operator \o " " \o right.ret.s))
    ELSE IF node.node = "Not"
    THEN LET modified == tree_to_filter_string_bare(idx, node.children[1])
         IN IF modified.raised # "" THEN modified
            ELSE Return(PyStr("!(" \o modified.ret.s \o ")"))
    ELSE TermToFilterString(idx, node)

RECURSIVE tree_to_filter_string(_, _)
\* tree_to_filter_string (nested in _get_filter_term)
tree_to_filter_string(idx, node) ==
    IF node.node \in {"And", "Or"}
    THEN LET operator == IF node.node = "And" THEN "AND" ELSE "OR"
             left == tree_to_filter_string(idx, node.children[1])
         IN IF left.raised # "" THEN left
            ELSE LET right == tree_to_filter_string(idx, node.children[2])
                 IN IF right.raised # "" THEN right
                    ELSE Return(PyStr("(" \o left.ret.s \o " " \o operator \o " "
                                      \o right.ret.s \o ")"))
    ELSE IF node.node = "Not"
    THEN LET modified == tree_to_filter_string(idx, node.children[1])
         IN IF modified.raised # "" THEN modified
            ELSE Return(PyStr("!(" \o modified.ret.s \o ")"))
    ELSE TermToFilterString(idx, node)

\* returns None (PyNone) when the query has no filter
_get_filter_term(idx, marqo_query) ==
    IF marqo_query.filter # None
    THEN tree_to_filter_string(idx, marqo_query.filter[1])
    ELSE Return(PyNone)

\* ------------------------------------------------------------------------
\* _get_select_attributes, _get_score_modifiers
\* ------------------------------------------------------------------------
_get_select_attributes(marqo_query) ==
    IF marqo_query.attributes_to_retrieve # None
    THEN JoinStr(marqo_query.attributes_to_retrieve[1], ", ")
    ELSE "*"

RECURSIVE ModifierWeights(_, _, _)
\* the dict built by the loop over score_modifiers for one modifier type
ModifierWeights(modifiers, type, tensor) ==
    IF Len(modifiers) = 0 THEN tensor
    ELSE ModifierWeights(Tail(modifiers), type,
                         IF Head(modifiers).type = type
                         THEN SetItem(tensor, Head(modifiers).field, PyFloat(Head(modifiers).weight))
                         ELSE tensor)

\* PyNone when there are no score modifiers
_get_score_modifiers(marqo_query) ==
    IF marqo_query.score_modifiers # None /\ Len(marqo_query.score_modifiers[1]) > 0
    THEN PyDict(<<
            Entry(QUERY_INPUT_SCORE_MODIFIERS_MULT_WEIGHTS,
                  ModifierWeights(marqo_query.score_modifiers[1], "multiply", PyDict(<<>>))),
            Entry(QUERY_INPUT_SCORE_MODIFIERS_ADD_WEIGHTS,
                  ModifierWeights(marqo_query.score_modifiers[1], "add", PyDict(<<>>))) >>)
    ELSE PyNone

\* ------------------------------------------------------------------------
\* _get_tensor_search_term
\* ------------------------------------------------------------------------
Min(a, b) == IF a < b THEN a ELSE b
Max(a, b) == IF a > b THEN a ELSE b

\* variant: the offset is left out of the hits to rank
target_hits_of_limit(marqo_query) ==
    IF marqo_query.ef_search # None
    THEN Min(marqo_query.limit, marqo_query.ef_search[1])
    ELSE marqo_query.limit
\* variant: ef_search does not cap the hits
target_hits_uncapped(marqo_query) == marqo_query.limit + marqo_query.offset[1]
target_hits(marqo_query) ==
    IF marqo_query.ef_search # None
    THEN Min(marqo_query.limit + marqo_query.offset[1], marqo_query.ef_search[1])
    ELSE marqo_query.limit + marqo_query.offset[1]

additional_hits(marqo_query) ==
    IF marqo_query.ef_search # None
    THEN Max(marqo_query.ef_search[1] - (marqo_query.limit + marqo_query.offset[1]), 0)
    ELSE 0

\* one nearestNeighbor term
NearestNeighborTerm(idx, marqo_query, field) ==
    "({targetHits:" \o ToString(target_hits(marqo_query))
    \o ", approximate:" \o Str(PyBool(marqo_query.approximate))
    \o ", hnsw.exploreAdditionalHits:" \o ToString(additional_hits(marqo_query))
    \o "}nearestNeighbor(" \o tensor_field_map(idx, field).embeddings_field_name
    \o ", " \o QUERY_INPUT_EMBEDDING \o "))"

_get_tensor_search_term(idx, marqo_query) ==
    LET InMap(f) == f \in Range(tensor_field_map_keys(idx))
        fields_to_search ==
            IF marqo_query.searchable_attributes # None
            THEN SelectSeq(marqo_query.searchable_attributes[1], InMap)
            ELSE tensor_field_map_keys(idx)
    IN \* limit + offset with offset None
       IF marqo_query.offset = None THEN Raise("TypeError", <<>>)
       ELSE LET terms == [i \in 1..Len(fields_to_search) |->
                             NearestNeighborTerm(idx, marqo_query, fields_to_search[i])]
            IN IF Len(terms) > 0 THEN Return(PyStr("(" \o JoinStr(terms, " OR ") \o ")"))
               ELSE Return(PyStr(""))

\* ------------------------------------------------------------------------
\* _get_lexical_search_term
\* ------------------------------------------------------------------------
_get_lexical_contains_term(idx, phrase, query) ==
    IF query.searchable_attributes # None
    THEN JoinStr([i \in 1..Len(query.searchable_attributes[1]) |->
                     field_map(idx, query.searchable_attributes[1][i]).lexical_field_name
                     \o " contains \"" \o phrase \o "\""], " OR ")
    ELSE "default contains \"" \o phrase \o "\""

\* variant: the AND terms are not parenthesised after the weakAnd
_get_lexical_search_term_bare(idx, marqo_query) ==
    LET or_terms ==
            IF Len(marqo_query.or_phrases) > 0
            THEN "weakAnd(" \o JoinStr([i \in 1..Len(marqo_query.or_phrases) |->
                     _get_lexical_contains_term(idx, marqo_query.or_phrases[i], marqo_query)], ", ")
                 \o ")"
            ELSE ""
        joined == JoinStr([i \in 1..Len(marqo_query.and_phrases) |->
                     _get_lexical_contains_term(idx, marqo_query.and_phrases[i], marqo_query)],
                     " AND ")
        and_terms ==
            IF Len(marqo_query.and_phrases) > 0
            THEN IF or_terms # "" THEN " AND " \o joined ELSE joined
            ELSE ""
    IN or_terms \o and_terms

_get_lexical_search_term(idx, marqo_query) ==
    LET or_terms ==
            IF Len(marqo_query.or_phrases) > 0
            THEN "weakAnd(" \o JoinStr([i \in 1..Len(marqo_query.or_phrases) |->
                     _get_lexical_contains_term(idx, marqo_query.or_phrases[i], marqo_query)], ", ")
                 \o ")"
            ELSE ""
        joined == JoinStr([i \in 1..Len(marqo_query.and_phrases) |->
                     _get_lexical_contains_term(idx, marqo_query.and_phrases[i], marqo_query)],
                     " AND ")
        and_terms ==
            IF Len(marqo_query.and_phrases) > 0
            THEN IF or_terms # "" THEN " AND (" \o joined \o ")" ELSE joined
            ELSE ""
    IN or_terms \o and_terms

\* ------------------------------------------------------------------------
\* _to_vespa_tensor_query, _to_vespa_lexical_query, _to_vespa_hybrid_query
\* ------------------------------------------------------------------------
RECURSIVE UpdateOnes(_, _)
\* query_inputs.update({f: 1 for f in fields_to_search})
UpdateOnes(query_inputs, fields_to_search) ==
    IF Len(fields_to_search) = 0 THEN query_inputs
    ELSE UpdateOnes(SetItem(query_inputs, Head(fields_to_search), PyInt(1)), Tail(fields_to_search))

RECURSIVE Update(_, _)
\* d.update(other)
Update(d, items) ==
    IF Len(items) = 0 THEN d
    ELSE Update(SetItem(d, Head(items).k, Head(items).val), Tail(items))

\* {k: v for k, v in query.items() if v is not None}
StripNone(query) ==
    LET Present(e) == e.val # PyNone IN PyDict(SelectSeq(query.items, Present))

OptInt(x) == IF x = None THEN PyNone ELSE PyInt(x[1])

\* the query dict both compilers build, before the exact-search overrides
QueryDict(idx, marqo_query, term, filter_term, query_inputs, ranking) ==
    StripNone(PyDict(<<
        Entry("yql", PyStr("select " \o _get_select_attributes(marqo_query) \o " from "
                           \o idx.schema_name \o " where " \o term \o filter_term)),
        Entry("model_restrict", PyStr(idx.schema_name)),
        Entry("hits", PyInt(marqo_query.limit)),
        Entry("offset", OptInt(marqo_query.offset)),
        Entry("query_features", query_inputs),
        Entry("presentation.summary",
              PyStr(IF marqo_query.expose_facets THEN SUMMARY_ALL_VECTOR
                    ELSE SUMMARY_ALL_NON_VECTOR)),
        Entry("ranking", PyStr(ranking)) >>))

\* variant: an exact search extends the timeout but leaves the soft timeout on
_to_vespa_tensor_query_soft(idx, marqo_query) ==
    IF marqo_query.searchable_attributes # None
       /\ \E att \in Range(marqo_query.searchable_attributes[1]) :
              att \notin Range(tensor_field_map_keys(idx))
    THEN Raise("InvalidFieldNameError", tensor_field_map_keys(idx))
    ELSE
    LET fields_to_search == IF marqo_query.searchable_attributes # None
                            THEN marqo_query.searchable_attributes[1]
                            ELSE tensor_field_map_keys(idx)
        tensor_term == IF Len(fields_to_search) > 0
                       THEN _get_tensor_search_term(idx, marqo_query)
                       ELSE Return(PyStr("False"))
        filter_term == _get_filter_term(idx, marqo_query)
        score_modifiers == _get_score_modifiers(marqo_query)
        ranking == IF Truthy(score_modifiers) THEN RANK_PROFILE_EMBEDDING_SIMILARITY_MODIFIERS
                   ELSE RANK_PROFILE_EMBEDDING_SIMILARITY
        inputs == UpdateOnes(PyDict(<<Entry(QUERY_INPUT_EMBEDDING, marqo_query.vector_query)>>),
                             fields_to_search)
        query_inputs == IF Truthy(score_modifiers) THEN Update(inputs, score_modifiers.items)
                        ELSE inputs
    IN IF tensor_term.raised # "" THEN tensor_term
       ELSE IF filter_term.raised # "" THEN filter_term
       ELSE LET query == QueryDict(idx, marqo_query, tensor_term.ret.s,
                                   IF Truthy(filter_term.ret) THEN " AND " \o filter_term.ret.s
                                   ELSE "",
                                   query_inputs, ranking)
            IN IF ~ marqo_query.approximate
               THEN Return(SetItem(query, "timeout", PyStr("300s")))
               ELSE Return(query)

_to_vespa_tensor_query(idx, marqo_query) ==
    IF marqo_query.searchable_attributes # None
       /\ \E att \in Range(marqo_query.searchable_attributes[1]) :
              att \notin Range(tensor_field_map_keys(idx))
    THEN Raise("InvalidFieldNameError", tensor_field_map_keys(idx))
    ELSE
    LET fields_to_search == IF marqo_query.searchable_attributes # None
                            THEN marqo_query.searchable_attributes[1]
                            ELSE tensor_field_map_keys(idx)
        tensor_term == IF Len(fields_to_search) > 0
                       THEN _get_tensor_search_term(idx, marqo_query)
                       ELSE Return(PyStr("False"))
        filter_term == _get_filter_term(idx, marqo_query)
        score_modifiers == _get_score_modifiers(marqo_query)
        ranking == IF Truthy(score_modifiers) THEN RANK_PROFILE_EMBEDDING_SIMILARITY_MODIFIERS
                   ELSE RANK_PROFILE_EMBEDDING_SIMILARITY
        inputs == UpdateOnes(PyDict(<<Entry(QUERY_INPUT_EMBEDDING, marqo_query.vector_query)>>),
                             fields_to_search)
        query_inputs == IF Truthy(score_modifiers) THEN Update(inputs, score_modifiers.items)
                        ELSE inputs
    IN IF tensor_term.raised # "" THEN tensor_term
       ELSE IF filter_term.raised # "" THEN filter_term
       ELSE LET query == QueryDict(idx, marqo_query, tensor_term.ret.s,
                                   IF Truthy(filter_term.ret) THEN " AND " \o filter_term.ret.s
                                   ELSE "",
                                   query_inputs, ranking)
            IN IF ~ marqo_query.approximate
               THEN Return(SetItem(SetItem(query, "ranking.softtimeout.enable", PyBool(FALSE)),
                                   "timeout", PyStr("300s")))
               ELSE Return(query)

\* variant: the search term is built also when there is no field to search
_to_vespa_lexical_query_unguarded(idx, marqo_query) ==
    IF marqo_query.searchable_attributes # None
       /\ \E att \in Range(marqo_query.searchable_attributes[1]) :
              att \notin Range(lexically_searchable_fields_names(idx))
    THEN Raise("InvalidFieldNameError", lexically_searchable_fields_names(idx))
    ELSE
    LET fields_to_search == IF marqo_query.searchable_attributes # None
                            THEN marqo_query.searchable_attributes[1]
                            ELSE lexical_field_map_keys(idx)
        lexical_term == _get_lexical_search_term(idx, marqo_query)
        filter_term == _get_filter_term(idx, marqo_query)
        score_modifiers == _get_score_modifiers(marqo_query)
        ranking == IF Truthy(score_modifiers) THEN RANK_PROFILE_BM25_MODIFIERS
                   ELSE RANK_PROFILE_BM25
        inputs == UpdateOnes(PyDict(<<>>), fields_to_search)
        query_inputs == IF Truthy(score_modifiers) THEN Update(inputs, score_modifiers.items)
                        ELSE inputs
    IN IF filter_term.raised # "" THEN filter_term
       ELSE Return(QueryDict(idx, marqo_query, lexical_term,
                             IF Truthy(filter_term.ret) THEN " AND " \o filter_term.ret.s ELSE "",
                             query_inputs, ranking))

_to_vespa_lexical_query(idx, marqo_query) ==
    IF marqo_query.searchable_attributes # None
       /\ \E att \in Range(marqo_query.searchable_attributes[1]) :
              att \notin Range(lexically_searchable_fields_names(idx))
    THEN Raise("InvalidFieldNameError", lexically_searchable_fields_names(idx))
    ELSE
    LET fields_to_search == IF marqo_query.searchable_attributes # None
                            THEN marqo_query.searchable_attributes[1]
                            ELSE lexical_field_map_keys(idx)
        lexical_term == IF Len(fields_to_search) > 0
                        THEN _get_lexical_search_term(idx, marqo_query)
                        ELSE "False"
        filter_term == _get_filter_term(idx, marqo_query)
        score_modifiers == _get_score_modifiers(marqo_query)
        ranking == IF Truthy(score_modifiers) THEN RANK_PROFILE_BM25_MODIFIERS
                   ELSE RANK_PROFILE_BM25
        inputs == UpdateOnes(PyDict(<<>>), fields_to_search)
        query_inputs == IF Truthy(score_modifiers) THEN Update(inputs, score_modifiers.items)
                        ELSE inputs
    IN IF filter_term.raised # "" THEN filter_term
       ELSE Return(QueryDict(idx, marqo_query, lexical_term,
                             IF Truthy(filter_term.ret) THEN " AND " \o filter_term.ret.s ELSE "",
                             query_inputs, ranking))

\* variant: a hybrid query is compiled as a tensor query
_to_vespa_hybrid_query_as_tensor(idx, marqo_query) == _to_vespa_tensor_query(idx, marqo_query)
_to_vespa_hybrid_query(idx, marqo_query) == Raise("NotImplementedError", <<>>)

\* ------------------------------------------------------------------------
\* to_vespa_query: the outcome, and the query object as the call leaves it
\* ------------------------------------------------------------------------
\* the chunk field names collected by the loop over attributes_to_retrieve
ChunkFieldNames(idx, attributes) ==
    LET IsTensor(att) == att \in Range(tensor_field_map_keys(idx))
        tensor_atts == SelectSeq(attributes, IsTensor)
    IN [i \in 1..Len(tensor_atts) |-> tensor_field_map(idx, tensor_atts[i]).chunk_field_name]

\* variant: only the first attribute is verified
VerifyAttributesFirstOnly(idx, marqo_query) ==
    IF marqo_query.attributes_to_retrieve = None
    THEN [outcome |-> Return(PyNone), marqo_query |-> marqo_query]
    ELSE IF Len(marqo_query.attributes_to_retrieve[1]) > 0
            /\ marqo_query.attributes_to_retrieve[1][1] \notin Range(field_map_keys(idx))
    THEN [outcome |-> Raise("InvalidFieldNameError", field_map_keys(idx)),
          marqo_query |-> marqo_query]
    ELSE [outcome |-> Return(PyNone),
          marqo_query |->
              [marqo_query EXCEPT !.attributes_to_retrieve =
                  Some(Append(marqo_query.attributes_to_retrieve[1], FIELD_ID)
                       \o ChunkFieldNames(idx, marqo_query.attributes_to_retrieve[1]))]]

\* lines 187-200: verify attributes_to_retrieve, then append to the list
VerifyAttributes(idx, marqo_query) ==
    IF marqo_query.attributes_to_retrieve = None
    THEN [outcome |-> Return(PyNone), marqo_query |-> marqo_query]
    ELSE IF \E att \in Range(marqo_query.attributes_to_retrieve[1]) :
                att \notin Range(field_map_keys(idx))
    THEN [outcome |-> Raise("InvalidFieldNameError", field_map_keys(idx)),
          marqo_query |-> marqo_query]
    ELSE [outcome |-> Return(PyNone),
          marqo_query |->
              [marqo_query EXCEPT !.attributes_to_retrieve =
                  Some(Append(marqo_query.attributes_to_retrieve[1], FIELD_ID)
                       \o ChunkFieldNames(idx, marqo_query.attributes_to_retrieve[1]))]]

\* lines 202-209: verify score modifiers
VerifyScoreModifiers(idx, marqo_query) ==
    IF marqo_query.score_modifiers # None
       /\ \E i \in 1..Len(marqo_query.score_modifiers[1]) :
              marqo_query.score_modifiers[1][i].field \notin Range(score_modifier_fields_names(idx))
    THEN Raise("InvalidFieldNameError", score_modifier_fields_names(idx))
    ELSE Return(PyNone)

to_vespa_query(idx, marqo_query) ==
    LET verified == VerifyAttributes(idx, marqo_query)
        query == verified.marqo_query
        modifiers == VerifyScoreModifiers(idx, query)
    IN [marqo_query |-> query,
        outcome |->
            IF verified.outcome.raised # "" THEN verified.outcome
            ELSE IF modifiers.raised # "" THEN modifiers
            ELSE IF query.type = "tensor" THEN _to_vespa_tensor_query(idx, query)
            ELSE IF query.type = "lexical" THEN _to_vespa_lexical_query(idx, query)
            ELSE IF query.type = "hybrid" THEN _to_vespa_hybrid_query(idx, query)
            ELSE Raise("InternalError", <<>>)]

\* ------------------------------------------------------------------------
\* Inputs: Marqo documents
\* ------------------------------------------------------------------------
AllFields == TextFields \o OtherFields
Prefix(seq, n) == SubSeq(seq, 1, n)

\* one value of every Python type a caller can put in a field
KindValues ==
    { PyStr("hello"), PyBool(TRUE), PyBool(FALSE), PyInt(3), PyFloat(15),
      PyList(<<PyStr("a"), PyStr("b")>>), PyDict(<<Entry("k", PyStr("v"))>>), PyNone }

\* documents with one flat field: every field (and an unknown one) with every kind of value
SingleFieldDocs ==
    { PyDict(<<Entry(name, value)>>) :
        name \in Range(Names(AllFields)) \cup {"nope"}, value \in KindValues }

\* flat sections whose values pass the type check
FlatEntries ==
    { Entry("title", PyStr("hello")), Entry("desc", PyStr("some text")),
      Entry("in_stock", PyBool(TRUE)), Entry("in_stock", PyBool(FALSE)),
      Entry("rank", PyInt(3)), Entry("price", PyFloat(15)), Entry("price", PyInt(2)),
      Entry("tags", PyList(<<PyStr("a"), PyStr("b")>>)),
      Entry("img", PyStr("http://img/1.png")),
      Entry("combo", PyDict(<<Entry("k", PyStr("v"))>>)) }
FlatSections ==
    {<<>>} \cup {<<e>> : e \in FlatEntries}
    \cup {<<e1, e2>> : e1 \in {e \in FlatEntries : e.k \in {"title", "in_stock"}},
                       e2 \in {e \in FlatEntries : e.k \in {"rank", "price"}}}
    \cup {<<e2, e1>> : e1 \in {e \in FlatEntries : e.k = "title"},
                       e2 \in {e \in FlatEntries : e.k = "price"}}

\* chunk lists and embedding lists up to MaxChunks long
ChunkPool(n) == [i \in 1..n |-> PyStr("chunk " \o ToString(i))]
VectorPool(n) == [i \in 1..n |-> PyList(<<PyFloat(i), PyFloat(10 * i)>>)]
ChunkLists ==
    {PyList(ChunkPool(n)) : n \in 0..MaxChunks}
    \* an image chunk is a tuple (a bounding box)
    \cup {PyList(<<PyTuple(<<PyInt(0), PyInt(0), PyInt(10), PyInt(20)>>)>>)}
EmbeddingLists == {PyList(VectorPool(n)) : n \in 0..MaxChunks}
TensorValues ==
    { PyDict(<<Entry(MARQO_DOC_CHUNKS, c), Entry(MARQO_DOC_EMBEDDINGS, e)>>) :
        c \in ChunkLists, e \in EmbeddingLists }
    \cup { PyDict(<<Entry(MARQO_DOC_EMBEDDINGS, PyList(VectorPool(1))),
                    Entry(MARQO_DOC_CHUNKS, PyList(ChunkPool(1)))>>),
           PyDict(<<Entry(MARQO_DOC_CHUNKS, PyList(ChunkPool(1)))>>),
           PyDict(<<Entry(MARQO_DOC_EMBEDDINGS, PyList(VectorPool(1)))>>),
           PyDict(<<Entry(MARQO_DOC_CHUNKS, PyList(ChunkPool(1))),
                    Entry(MARQO_DOC_EMBEDDINGS, PyList(VectorPool(1))),
                    Entry("extra", PyNone)>>) }
FullTensorValue ==
    PyDict(<<Entry(MARQO_DOC_CHUNKS, PyList(ChunkPool(MaxChunks))),
             Entry(MARQO_DOC_EMBEDDINGS, PyList(VectorPool(MaxChunks)))>>)
\* the tensor section: absent (<<>>), or one entry MARQO_DOC_TENSORS
TensorSections ==
    {<<>>, <<Entry(MARQO_DOC_TENSORS, PyDict(<<>>))>>}
    \cup {<<Entry(MARQO_DOC_TENSORS, PyDict(<<Entry(name, tv)>>))>> :
            name \in {"title", "desc"}, tv \in TensorValues}
    \cup {<<Entry(MARQO_DOC_TENSORS, PyDict(<<Entry("title", tv), Entry("desc", FullTensorValue)>>))>> :
            tv \in TensorValues}
    \cup {<<Entry(MARQO_DOC_TENSORS, PyDict(<<Entry("rank", FullTensorValue)>>))>>}
IdSections == {<<>>, <<Entry(MARQO_DOC_ID, PyStr("doc1"))>>}

MarqoDocuments ==
    SingleFieldDocs
    \cup {PyDict(id \o flat \o tensors) :
            id \in IdSections, flat \in FlatSections, tensors \in TensorSections}
    \* the tensor section ahead of the flat fields
    \cup {PyDict(tensors \o flat) :
            flat \in {<<Entry("title", PyStr("hello"))>>},
            tensors \in {<<Entry(MARQO_DOC_TENSORS, PyDict(<<Entry("title", FullTensorValue)>>))>>}}

\* ------------------------------------------------------------------------
\* Inputs: Vespa documents as the backend returns them
\* ------------------------------------------------------------------------
Title == TensorField("title")
Desc == TensorField("desc")
Cells(keys) ==
    PyDict(<<Entry("type", PyStr("tensor<float>(p{})")),
             Entry("cells", PyDict([i \in 1..Len(keys) |-> Entry(keys[i], PyFloat(10))]))>>)
\* the closest(...) entry of one tensor field: absent, or with these cell keys
ClosestOptions(tensor_field, keySets) ==
    {<<>>} \cup {<<Entry(closest_feature(tensor_field), Cells(keys))>> : keys \in keySets}
\* the distance(...) entry of one tensor field: absent, 0.2 or 0.4
DistanceOptions(tensor_field) ==
    {<<>>} \cup {<<Entry(distance_feature(tensor_field), PyFloat(d))>> : d \in {2, 4}}
MatchFeatures ==
    { PyDict(c1 \o d1 \o c2 \o d2) :
        c1 \in ClosestOptions(Title, {<<>>, <<"0">>, <<"1">>, <<"-1">>, <<"x">>,
                                      <<ToString(MaxChunks)>>}),
        d1 \in DistanceOptions(Title),
        c2 \in ClosestOptions(Desc, {<<>>, <<"0">>, <<"1", "0">>}),
        d2 \in DistanceOptions(Desc) }
\* the chunk fields of a row
ChunkSections ==
    { <<Entry(Title.chunk_field_name, PyList(ChunkPool(MaxChunks))),
        Entry(Desc.chunk_field_name, PyList(ChunkPool(MaxChunks)))>>,
      <<>>,
      <<Entry(Desc.chunk_field_name, PyList(ChunkPool(MaxChunks)))>>,
      <<Entry(Title.chunk_field_name, PyList(<<PyStr(""), PyStr("chunk 2")>>))>>,
      <<Entry(Title.chunk_field_name, PyStr("xy"))>>,
      <<Entry(Title.chunk_field_name, PyDict(<<Entry("0", PyStr("chunk 1"))>>))>>,
      <<Entry(Title.chunk_field_name, PyInt(7))>> }
Row(fields) ==
    PyDict(<<Entry(_VESPA_DOC_ID, PyStr("id:idx:idx::doc1")),
             Entry(_VESPA_DOC_RELEVANCE, PyFloat(5)),
             Entry(_VESPA_DOC_FIELDS, PyDict(fields))>>)
HighlightRows ==
    { Row(chunks \o <<Entry(_VESPA_DOC_MATCH_FEATURES, mf)>>) :
        chunks \in ChunkSections, mf \in MatchFeatures }

Blocks(items) == PyDict(<<Entry("type", PyStr("tensor<float>(p{},x[2])")),
                          Entry("blocks", items)>>)
StoredFieldSections ==
    { <<Entry(FIELD_ID, PyStr("doc1")),
        Entry("marqo__lexical_title", PyStr("hello")), Entry("marqo__filter_title", PyStr("hello"))>>,
      <<Entry("marqo__filter_title", PyStr("hello")), Entry("marqo__lexical_title", PyStr("hello"))>>,
      <<Entry("marqo__lexical_title", PyStr("hello")), Entry("marqo__filter_title", PyStr("bye"))>>,
      <<Entry("marqo__filter_title", PyStr("bye")), Entry("marqo__lexical_title", PyStr("hello"))>>,
      <<Entry("sddocname", PyStr("idx")), Entry(FIELD_VECTOR_COUNT, PyInt(2)),
        Entry(FIELD_SCORE_MODIFIERS, PyDict(<<>>)), Entry("img", PyStr("http://img/1.png"))>>,
      <<Entry("marqo__unknown", PyStr("x"))>> }
    \cup { <<Entry("marqo__filter_in_stock", value)>> :
             value \in {PyInt(0), PyInt(1), PyInt(2), PyBool(TRUE), PyFloat(10), PyStr("1"),
                        PyList(<<PyInt(1)>>), PyNone} }
    \cup { <<Entry(Title.chunk_field_name, PyList(ChunkPool(MaxChunks))),
             Entry(Title.embeddings_field_name, value)>> :
             value \in { Blocks(PyDict(Positional(VectorPool(MaxChunks)))),
                         Blocks(PyDict(<<Entry("1", VectorPool(2)[2]), Entry("0", VectorPool(2)[1])>>)),
                         Blocks(PyList(VectorPool(1))),
                         PyDict(Positional(VectorPool(MaxChunks))),
                         PyList(VectorPool(1)),
                         PyNone } }
StoredRows ==
    {Row(fields) : fields \in StoredFieldSections}
    \cup {PyDict(<<Entry(_VESPA_DOC_ID, PyStr("id:idx:idx::doc1"))>>)}
VespaDocuments == HighlightRows \cup StoredRows

\* ------------------------------------------------------------------------
\* Inputs: Marqo queries
\* ------------------------------------------------------------------------
EqualityTerm(field, value) ==
    [node |-> "EqualityTerm", field |-> field, value |-> value,
     lower |-> None, upper |-> None, children |-> <<>>]
RangeTerm(field, lower, upper) ==
    [node |-> "RangeTerm", field |-> field, value |-> "",
     lower |-> lower, upper |-> upper, children |-> <<>>]
Operator(op, left, right) ==
    [node |-> op, field |-> "", value |-> "", lower |-> None, upper |-> None,
     children |-> <<left, right>>]
Not(modified) ==
    [node |-> "Not", field |-> "", value |-> "", lower |-> None, upper |-> None,
     children |-> <<modified>>]

\* the terms the nested trees are built from: an equality term whose value holds a
\* parenthesis, a range term with both bounds and one with only a lower bound
TreeTerms ==
    { EqualityTerm("title", "a(b"), RangeTerm("rank", Some(1), Some(2)),
      RangeTerm("rank", Some(1), None) }
Terms ==
    TreeTerms
    \cup { EqualityTerm("title", "hello"), EqualityTerm("title", "say \"hi\" \\ bye"),
           EqualityTerm("in_stock", "True"), RangeTerm("rank", None, Some(2)),
           RangeTerm("rank", None, None),
           \* desc is not filterable
           EqualityTerm("desc", "hello") }

RECURSIVE TreesOfSize(_)
\* the filter trees with exactly n nodes over TreeTerms
TreesOfSize(n) ==
    IF n = 1 THEN TreeTerms
    ELSE {Not(m) : m \in TreesOfSize(n - 1)}
         \cup UNION { {Operator(op, l, r) :
                          op \in {"And", "Or"}, l \in TreesOfSize(i), r \in TreesOfSize(n - 1 - i)} :
                      i \in 1..(n - 2) }
Trees ==
    UNION {TreesOfSize(n) : n \in 1..MaxNodes}
    \cup Terms
    \cup {Not(t) : t \in Terms}
    \cup {Operator(o, EqualityTerm("title", "hello"), t) : o \in {"And", "Or"}, t \in Terms}

BaseQuery(type) ==
    [type |-> type, limit |-> 1, offset |-> Some(0),
     attributes_to_retrieve |-> None, searchable_attributes |-> None,
     filter |-> None, score_modifiers |-> None, expose_facets |-> FALSE,
     vector_query |-> PyList(<<PyFloat(1), PyFloat(2)>>),
     approximate |-> TRUE, ef_search |-> None,
     or_phrases |-> <<>>, and_phrases |-> <<>>]
QueryTypes == {"tensor", "lexical", "hybrid"}
ScoreModifier(field, weight, type) == [field |-> field, weight |-> weight, type |-> type]

\* tensor queries over limit, offset, ef_search, approximate and the searched fields
BreadthQueries ==
    { [BaseQuery("tensor") EXCEPT !.limit = l, !.offset = o, !.ef_search = ef,
                                  !.approximate = a, !.searchable_attributes = s] :
        l \in 0..MaxLimit, o \in {None} \cup {Some(x) : x \in 0..MaxLimit},
        ef \in {None} \cup {Some(x) : x \in 1..MaxEfSearch}, a \in BOOLEAN,
        s \in {None, Some(<<>>), Some(<<"title">>), Some(<<"desc", "title">>), Some(<<"rank">>)} }
    \cup { [BaseQuery("tensor") EXCEPT !.limit = 10, !.offset = Some(5), !.ef_search = ef] :
             ef \in {None, Some(20)} }

\* queries of every kind over attributes_to_retrieve and score modifiers
AttributeQueries ==
    { [BaseQuery(type) EXCEPT !.attributes_to_retrieve = atts, !.score_modifiers = mods,
                              !.expose_facets = facets] :
        type \in QueryTypes,
        atts \in {None, Some(<<>>), Some(<<"title">>), Some(<<"rank">>), Some(<<"desc", "title">>),
                  Some(<<"nope">>), Some(<<"title", "nope">>), Some(<<"marqo__filter_title">>)},
        mods \in {None, Some(<<>>), Some(<<ScoreModifier("price", 15, "multiply")>>),
                  Some(<<ScoreModifier("price", 15, "multiply"), ScoreModifier("rank", 5, "add")>>),
                  Some(<<ScoreModifier("title", 10, "add")>>)},
        facets \in BOOLEAN }

\* tensor and lexical queries over the filter tree
FilterQueries ==
    { [BaseQuery(type) EXCEPT !.filter = Some(tree)] :
        type \in {"tensor", "lexical"}, tree \in Trees }

\* lexical queries over the phrases and the searched fields
PhraseLists(pool) == {Prefix(pool, n) : n \in 0..Len(pool)}
LexicalQueries ==
    { [BaseQuery("lexical") EXCEPT !.or_phrases = ors, !.and_phrases = ands,
                                   !.searchable_attributes = s, !.filter = f] :
        ors \in PhraseLists(<<"cat", "dog">>) \cup {<<"say \"hi\"">>},
        ands \in PhraseLists(<<"fast", "red">>),
        s \in {None, Some(<<>>), Some(<<"title">>), Some(<<"title", "desc">>), Some(<<"rank">>)},
        f \in {None, Some(RangeTerm("rank", Some(1), None))} }

MarqoQueries == BreadthQueries \cup AttributeQueries \cup FilterQueries \cup LexicalQueries

\* text predicates
StartsWith(s, prefix) == Len(s) >= Len(prefix) /\ SubSeq(s, 1, Len(prefix)) = prefix
EndsWith(s, suffix) ==
    Len(s) >= Len(suffix) /\ SubSeq(s, Len(s) - Len(suffix) + 1, Len(s)) = suffix
\* the number of places of s where sub occurs
Count(s, sub) ==
    Cardinality({i \in 1..(Len(s) - Len(sub) + 1) : SubSeq(s, i, i + Len(sub) - 1) = sub})

\* ------------------------------------------------------------------------
\* Paginated search (test_pagination_single_field) and the backend it runs against
\* ------------------------------------------------------------------------
\* a search for 'my title' with result_count = limit
PageQuery(type, limit, offset) ==
    [BaseQuery(type) EXCEPT !.limit = limit, !.offset = Some(offset),
                            !.or_phrases = IF type = "lexical" THEN <<"my", "title">> ELSE <<>>]
\* math.ceil(num_docs / page_size)
Pages(num_docs, page_size) == (num_docs + page_size - 1) \div page_size
NoPaging ==
    [type |-> "", num_docs |-> 0, page_size |-> 0, page_num |-> 0, hits |-> 0, full_hits |-> 0]

\* the targetHits annotation of the yql's nearestNeighbor clauses
TargetHitsOf(yql) ==
    CHOOSE n \in 0..(MaxDocs + MaxPageSize) :
        Count(yql, "{targetHits:" \o ToString(n) \o ",") > 0
\* the number of hits the backend returns for a compiled query when num_docs
\* documents match its predicate: the predicate 'False' matches none, a
\* nearestNeighbor clause ranks the closest targetHits of them, and the row
\* slice is [offset, offset + hits)
BackendHits(query, num_docs) ==
    LET yql == Get(query, "yql").s
        matching == IF Count(yql, " where False") > 0 THEN 0 ELSE num_docs
        ranked == IF Count(yql, "{targetHits:") > 0
                  THEN Min(TargetHitsOf(yql), matching) ELSE matching
        offset == Get(query, "offset").n
        hits == Get(query, "hits").n
    IN Min(offset + hits, ranked) - Min(offset, ranked)

\* ------------------------------------------------------------------------
\* The state machine: one caller, one index, one object at a time
\* ------------------------------------------------------------------------
VARIABLES
    index,              \* the StructuredMarqoIndex the object was constructed with
    op,                 \* the last step taken
    marqo_document,     \* the Marqo document the caller holds (None or Some)
    vespa_document,     \* the Vespa document the caller holds (None or Some)
    wire_source,        \* where vespa_document came from
    return_highlights,  \* the flag of the last to_marqo_document call
    marqo_query,        \* the query object the caller holds (None or Some)
    passed_query,       \* the query object as it was when last passed in
    returned,           \* the outcomes of the to_vespa_query calls made on marqo_query
    outcome,            \* the outcome of the last call
    paging              \* the paginated search under way: its pages and hits so far

vars == <<index, op, marqo_document, vespa_document, wire_source, return_highlights,
          marqo_query, passed_query, returned, outcome, paging>>

Init ==
    /\ index \in Indexes
    /\ op = "start"
    /\ marqo_document = None
    /\ vespa_document = None
    /\ wire_source = "none"
    /\ return_highlights = FALSE
    /\ marqo_query = None
    /\ passed_query = None
    /\ returned = <<>>
    /\ outcome = Return(PyNone)
    /\ paging = NoPaging

\* the caller builds a Marqo document
NewDocument ==
    /\ op = "start"
    /\ \E d \in MarqoDocuments : marqo_document' = Some(d)
    /\ op' = "new_document"
    /\ UNCHANGED <<index, vespa_document, wire_source, return_highlights, marqo_query,
                   passed_query, returned, outcome, paging>>

\* to_vespa_document(marqo_document); the caller keeps what it returns
ToVespaDocument ==
    /\ op = "new_document"
    /\ outcome' = to_vespa_document(index, marqo_document[1])
    /\ vespa_document' = IF outcome'.raised = "" THEN Some(outcome'.ret) ELSE None
    /\ wire_source' = IF outcome'.raised = "" THEN "to_vespa_document" ELSE "none"
    /\ op' = "to_vespa_document"
    /\ UNCHANGED <<index, marqo_document, return_highlights, marqo_query, passed_query, returned,
                   paging>>

\* the backend returns a row
ReceiveVespaDocument ==
    /\ op = "start"
    /\ \E d \in VespaDocuments : vespa_document' = Some(d)
    /\ wire_source' = "backend"
    /\ op' = "receive"
    /\ UNCHANGED <<index, marqo_document, return_highlights, marqo_query, passed_query,
                   returned, outcome, paging>>

\* to_marqo_document(vespa_document, return_highlights)
ToMarqoDocument ==
    /\ op \in {"to_vespa_document", "receive"}
    /\ vespa_document # None
    /\ \E h \in BOOLEAN :
          /\ return_highlights' = h
          /\ outcome' = to_marqo_document(index, vespa_document[1], h)
    /\ op' = "to_marqo_document"
    /\ UNCHANGED <<index, marqo_document, vespa_document, wire_source, marqo_query,
                   passed_query, returned, paging>>

\* the caller builds a query
NewQuery ==
    /\ op = "start"
    /\ \E q \in MarqoQueries : marqo_query' = Some(q)
    /\ op' = "new_query"
    /\ UNCHANGED <<index, marqo_document, vespa_document, wire_source, return_highlights,
                   passed_query, returned, outcome, paging>>

\* to_vespa_query(marqo_query), on the object the caller holds
ToVespaQuery ==
    /\ op \in {"new_query", "to_vespa_query"}
    /\ Len(returned) < MaxCalls
    /\ LET call == to_vespa_query(index, marqo_query[1])
       IN /\ marqo_query' = Some(call.marqo_query)
          /\ outcome' = call.outcome
          /\ returned' = Append(returned, call.outcome)
    /\ passed_query' = marqo_query
    /\ op' = "to_vespa_query"
    /\ UNCHANGED <<index, marqo_document, vespa_document, wire_source, return_highlights, paging>>

\* the full search of a paginated comparison: one query with limit = num_docs
\* and offset = 0, against a backend with num_docs matching documents
FullSearch ==
    /\ op = "start"
    /\ \E type \in {"tensor", "lexical"}, num_docs \in 0..MaxDocs, page_size \in 1..MaxPageSize :
          LET q == PageQuery(type, num_docs, 0)
              call == to_vespa_query(index, q)
          IN /\ passed_query' = Some(q)
             /\ marqo_query' = Some(call.marqo_query)
             /\ outcome' = call.outcome
             /\ returned' = <<call.outcome>>
             /\ paging' = [type |-> type, num_docs |-> num_docs, page_size |-> page_size,
                           page_num |-> 0, hits |-> 0,
                           full_hits |-> IF call.outcome.raised = ""
                                         THEN BackendHits(call.outcome.ret, num_docs) ELSE 0]
    /\ op' = "full_search"
    /\ UNCHANGED <<index, marqo_document, vespa_document, wire_source, return_highlights>>

\* the next page of the paginated search: limit = page_size, offset = page_num * page_size
NextPage ==
    /\ op \in {"full_search", "page"}
    /\ paging.page_num < Pages(paging.num_docs, paging.page_size)
    /\ LET q == PageQuery(paging.type, paging.page_size, paging.page_num * paging.page_size)
           call == to_vespa_query(index, q)
       IN /\ passed_query' = Some(q)
          /\ marqo_query' = Some(call.marqo_query)
          /\ outcome' = call.outcome
          /\ returned' = <<call.outcome>>
          /\ paging' = [paging EXCEPT
                           !.page_num = @ + 1,
                           !.hits = @ + IF call.outcome.raised = ""
                                        THEN BackendHits(call.outcome.ret, paging.num_docs)
                                        ELSE 0]
    /\ op' = "page"
    /\ UNCHANGED <<index, marqo_document, vespa_document, wire_source, return_highlights>>

Next ==
    \/ NewDocument
    \/ ToVespaDocument
    \/ ReceiveVespaDocument
    \/ ToMarqoDocument
    \/ NewQuery
    \/ ToVespaQuery
    \/ FullSearch
    \/ NextPage

Spec == Init /\ [][Next]_vars

\* ------------------------------------------------------------------------
\* Properties
\* ------------------------------------------------------------------------
\* the last call was to_marqo_document on what to_vespa_document returned
RoundTripDone == op = "to_marqo_document" /\ wire_source = "to_vespa_document"
\* the flat field names of a Marqo document
FlatNames(doc) == {k \in Range(Keys(doc)) : k \notin {MARQO_DOC_ID, MARQO_DOC_TENSORS}}
\* the tensor field names of a Marqo document
TensorNames(doc) ==
    IF Has(doc, MARQO_DOC_TENSORS) THEN Range(Keys(Get(doc, MARQO_DOC_TENSORS))) ELSE {}
IdReproduced(doc, back) ==
    Has(doc, MARQO_DOC_ID) =>
        Has(back, MARQO_DOC_ID) /\ Get(back, MARQO_DOC_ID) = Get(doc, MARQO_DOC_ID)
FlatReproduced(doc, back) ==
    \A k \in FlatNames(doc) : Has(back, k) /\ Get(back, k) = Get(doc, k)
TensorsReproduced(doc, back) ==
    \A name \in TensorNames(doc) :
        /\ Has(back, MARQO_DOC_TENSORS)
        /\ Has(Get(back, MARQO_DOC_TENSORS), name)
        /\ LET was == Get(Get(doc, MARQO_DOC_TENSORS), name)
               is == Get(Get(back, MARQO_DOC_TENSORS), name)
           IN /\ Has(is, MARQO_DOC_CHUNKS) /\ Has(is, MARQO_DOC_EMBEDDINGS)
              /\ Get(is, MARQO_DOC_CHUNKS) = Get(was, MARQO_DOC_CHUNKS)
              /\ Get(is, MARQO_DOC_EMBEDDINGS) = Get(was, MARQO_DOC_EMBEDDINGS)

\* C1: for every Marqo document that to_vespa_document accepts,
\* to_marqo_document on the returned Vespa document succeeds and reproduces the
\* id, every flat field value and every tensor field's chunks and embeddings.
C1_RoundTrip ==
    RoundTripDone =>
        /\ outcome.raised = ""
        /\ IdReproduced(marqo_document[1], outcome.ret)
        /\ FlatReproduced(marqo_document[1], outcome.ret)
        /\ TensorsReproduced(marqo_document[1], outcome.ret)

\* C2: two calls of to_vespa_query in succession with the same
\* query and the same index have the same outcome.
C2_Idempotent == Len(returned) >= 2 => returned[1] = returned[2]

\* C3: no call changes the object passed to it, nor the index.
C3_ArgumentsUnchanged ==
    [][ /\ index' = index
        /\ (op' = "to_vespa_document" => marqo_document' = marqo_document)
        /\ (op' = "to_marqo_document" => vespa_document' = vespa_document)
        /\ (op' = "to_vespa_query" => marqo_query' = marqo_query) ]_vars

\* the kinds of value each field type accepts, as the type guard is specified
AcceptedKinds(type) ==
    CASE type \in {"text", "image_pointer"} -> {"str"}
      [] type = "bool" -> {"bool"}
      [] type = "int" -> {"int"}
      [] type = "float" -> {"float", "int"}
      [] type \in {"array_text", "array_int", "array_float"} -> {"list"}
      [] type = "multimodal_combination" -> {"dict"}

\* C4: to_vespa_document on a document with one flat field of the
\* index fails with InvalidDataTypeError exactly when the kind of the value is
\* not one its declared type accepts, a bool not being an int.
C4_TypeGuard ==
    (op = "to_vespa_document" /\ Len(marqo_document[1].items) = 1) =>
        LET field == marqo_document[1].items[1].k
            value == marqo_document[1].items[1].val
        IN field \in Range(field_map_keys(index)) =>
              IF value.kind \in AcceptedKinds(field_map(index, field).type)
              THEN outcome.raised = ""
              ELSE outcome.raised = "InvalidDataTypeError" /\ vespa_document = None

\* the last call was to_vespa_query and it returned a query object
Compiled == op = "to_vespa_query" /\ outcome.raised = ""
\* the 'yql' text of the returned query object
Yql == Get(outcome.ret, "yql").s
\* the tensor fields a tensor query searches
SearchedTensorFields(q) ==
    IF q.searchable_attributes = None THEN tensor_field_map_keys(index)
    ELSE q.searchable_attributes[1]
Breadth(hits, approximate, additional) ==
    "{targetHits:" \o ToString(hits) \o ", approximate:"
    \o (IF approximate THEN "True" ELSE "False")
    \o ", hnsw.exploreAdditionalHits:" \o ToString(additional) \o "}nearestNeighbor("

\* C5: a compiled tensor query that searches at least one tensor field has one
\* nearestNeighbor clause per searched field, each with targetHits = limit +
\* offset and exploreAdditionalHits = 0 when ef_search is omitted, and with
\* targetHits = min(limit + offset, ef_search) and exploreAdditionalHits =
\* max(ef_search - (limit + offset), 0) when it is given.
C5_QueryBreadth ==
    (Compiled /\ passed_query[1].type = "tensor"
              /\ Len(SearchedTensorFields(passed_query[1])) > 0) =>
        LET q == passed_query[1]
            wanted == q.limit + q.offset[1]
            hits == IF q.ef_search = None THEN wanted
                    ELSE IF wanted <= q.ef_search[1] THEN wanted ELSE q.ef_search[1]
            additional == IF q.ef_search = None THEN 0
                          ELSE IF wanted <= q.ef_search[1] THEN q.ef_search[1] - wanted ELSE 0
            clauses == Len(SearchedTensorFields(q))
        IN /\ q.offset # None
           /\ Count(Yql, "nearestNeighbor(") = clauses
           /\ Count(Yql, "targetHits:") = clauses
           /\ Count(Yql, Breadth(hits, q.approximate, additional)) = clauses

\* C5 witness: limit=10, offset=5, ef_search=20 compiled to 15 and 5
C5_Witness ==
    /\ Compiled
    /\ passed_query[1].type = "tensor"
    /\ passed_query[1].limit = 10 /\ passed_query[1].offset = Some(5)
    /\ passed_query[1].ef_search = Some(20)
    /\ Count(Yql, "{targetHits:15, approximate:True, hnsw.exploreAdditionalHits:5}") = 2

\* the row's fields, when highlights were asked of a row with match features
HighlightsAsked ==
    /\ op = "to_marqo_document" /\ return_highlights
    /\ Has(vespa_document[1], _VESPA_DOC_FIELDS)
    /\ Has(Get(vespa_document[1], _VESPA_DOC_FIELDS), _VESPA_DOC_MATCH_FEATURES)
RowFields == Get(vespa_document[1], _VESPA_DOC_FIELDS)
RowMatchFeatures == Get(RowFields, _VESPA_DOC_MATCH_FEATURES)
\* the positions, in the index, of the tensor fields with a non-empty closest cell set
WithCells ==
    {i \in 1..Len(index.tensor_fields) :
        /\ Has(RowMatchFeatures, closest_feature(index.tensor_fields[i]))
        /\ Len(Get(Get(RowMatchFeatures, closest_feature(index.tensor_fields[i])), "cells").items) > 0}
AllPaired == \A i \in WithCells : Has(RowMatchFeatures, distance_feature(index.tensor_fields[i]))
Distance(i) == Tenths(Get(RowMatchFeatures, distance_feature(index.tensor_fields[i])))
\* the first, in index order, of the fields of WithCells with the least distance
Winner ==
    CHOOSE i \in WithCells :
        /\ \A j \in WithCells : Distance(i) <= Distance(j)
        /\ \A j \in WithCells : Distance(j) = Distance(i) => i <= j

\* C6: when highlights are extracted from a row whose fields with a non-empty
\* closest cell set all have a distance, the field selected is the one of them
\* with the least distance, the first in index order among equals; a returned
\* highlight names that field; with no such field nothing is selected and the
\* extraction fails.
C6_HighlightSelection ==
    HighlightsAsked =>
        /\ (WithCells = {} =>
               /\ FindClosest(index, RowFields).closest_tensor_field = None
               /\ outcome.raised = "VespaDocumentParsingError")
        /\ (WithCells # {} /\ AllPaired =>
               /\ FindClosest(index, RowFields).closest_tensor_field
                      = Some(index.tensor_fields[Winner])
               /\ (outcome.raised = "" =>
                      LET highlights == Get(outcome.ret, MARQO_DOC_HIGHLIGHTS)
                      IN /\ Len(highlights.items) <= 1
                         /\ \A h \in Range(Values(highlights)) :
                                Keys(h) = <<index.tensor_fields[Winner].name>>))

\* C6 witness: title (first in the index) at distance 0.4 and desc at 0.2, both
\* with cells: the highlight is desc's
C6_Witness ==
    /\ HighlightsAsked
    /\ index.tensor_fields = <<Title, Desc>>
    /\ WithCells = {1, 2} /\ AllPaired
    /\ Distance(1) = 4 /\ Distance(2) = 2
    /\ outcome.raised = ""
    /\ Get(outcome.ret, MARQO_DOC_HIGHLIGHTS)
           = PyList(<<PyDict(<<Entry("desc", PyStr("chunk 1"))>>)>>)

\* the shared pre-checks of to_vespa_query pass on q
AttributesResolve(q) ==
    q.attributes_to_retrieve # None =>
        \A att \in Range(q.attributes_to_retrieve[1]) : att \in Range(field_map_keys(index))
ScoreModifiersResolve(q) ==
    q.score_modifiers # None =>
        \A i \in 1..Len(q.score_modifiers[1]) :
            q.score_modifiers[1][i].field \in Range(score_modifier_fields_names(index))

\* C7 (as claimed): to_vespa_query on any hybrid query fails with
\* NotImplementedError.
C7_HybridNotSupported ==
    (op = "to_vespa_query" /\ passed_query[1].type = "hybrid") =>
        outcome.raised = "NotImplementedError"

\* C7 (amended): to_vespa_query on a hybrid query never returns a query object:
\* it fails with NotImplementedError when the shared pre-checks of
\* attributes_to_retrieve and the score modifiers pass, and with
\* InvalidFieldNameError when one of them does not.
C7_HybridNeverCompiled ==
    (op = "to_vespa_query" /\ passed_query[1].type = "hybrid") =>
        /\ outcome.raised # "" /\ outcome.ret = PyNone
        /\ IF AttributesResolve(passed_query[1]) /\ ScoreModifiersResolve(passed_query[1])
           THEN outcome.raised = "NotImplementedError"
           ELSE outcome.raised = "InvalidFieldNameError"

\* C7 witness: a hybrid query that passes the pre-checks was refused
C7_Witness ==
    /\ op = "to_vespa_query" /\ passed_query[1].type = "hybrid"
    /\ passed_query[1].attributes_to_retrieve = Some(<<"title">>)
    /\ passed_query[1].score_modifiers = Some(<<ScoreModifier("price", 15, "multiply")>>)
    /\ outcome.raised = "NotImplementedError"

\* C8: for every kind of query with attributes_to_retrieve given, to_vespa_query
\* fails with InvalidFieldNameError listing the index's field names and returns
\* no query object when a listed name is not a field of the index, and does not
\* fail so when every listed name is one.
C8_UnknownAttribute ==
    (op = "to_vespa_query" /\ passed_query[1].attributes_to_retrieve # None) =>
        IF AttributesResolve(passed_query[1])
        THEN ~ (outcome.raised = "InvalidFieldNameError"
                /\ outcome.names = field_map_keys(index))
        ELSE /\ outcome.raised = "InvalidFieldNameError"
             /\ outcome.names = field_map_keys(index)
             /\ outcome.ret = PyNone

\* C8 witness: a known name followed by an unknown one was refused
C8_Witness ==
    /\ op = "to_vespa_query"
    /\ passed_query[1].attributes_to_retrieve = Some(<<"title", "nope">>)
    /\ outcome.raised = "InvalidFieldNameError"
    /\ "title" \in Range(outcome.names)

RECURSIVE Leaves(_)
\* the terms of a filter tree, left to right
Leaves(node) ==
    IF node.node \in {"And", "Or"} THEN Leaves(node.children[1]) \o Leaves(node.children[2])
    ELSE IF node.node = "Not" THEN Leaves(node.children[1])
    ELSE <<node>>

\* every term names a filterable field, and every range term has a bound
Renderable(tree) ==
    \A i \in 1..Len(Leaves(tree)) :
        LET term == Leaves(tree)[i]
        IN /\ term.field \in Range(filterable_fields_names(index))
           /\ term.node = "RangeTerm" => (term.lower # None \/ term.upper # None)

RECURSIVE Structural(_)
\* the text of a renderable tree, built node by node as the filter syntax is specified
Structural(node) ==
    CASE node.node = "And" ->
            "(" \o Structural(node.children[1]) \o " AND " \o Structural(node.children[2]) \o ")"
      [] node.node = "Or" ->
            "(" \o Structural(node.children[1]) \o " OR " \o Structural(node.children[2]) \o ")"
      [] node.node = "Not" -> "!(" \o Structural(node.children[1]) \o ")"
      [] node.node = "EqualityTerm" -> TermToFilterString(index, node).ret.s
      [] node.node = "RangeTerm" ->
            LET f == all_field_map(index, node.field).filter_field_name
            IN IF node.lower # None /\ node.upper # None
               THEN "(" \o f \o " >= " \o ToString(node.lower[1]) \o " AND "
                    \o f \o " <= " \o ToString(node.upper[1]) \o ")"
               ELSE IF node.lower # None THEN f \o " >= " \o ToString(node.lower[1])
               ELSE f \o " <= " \o ToString(node.upper[1])

Char(s, i) == SubSeq(s, i, i)
\* the number of backslashes that immediately precede position i
BackslashesBefore(s, i) ==
    CHOOSE k \in 0..(i - 1) :
        /\ \A j \in 1..k : Char(s, i - j) = "\\"
        /\ (k = i - 1 \/ Char(s, i - k - 1) # "\\")
\* the double quotes that open or close a literal: those not escaped
Delimiters(s) ==
    {i \in 1..Len(s) : Char(s, i) = "\"" /\ BackslashesBefore(s, i) % 2 = 0}
\* the places of character c outside the quoted literals
Outside(s, c) ==
    LET quotes == Delimiters(s)
    IN {i \in 1..Len(s) : Char(s, i) = c /\ Cardinality({d \in quotes : d < i}) % 2 = 0}
\* outside the quoted literals, no ")" comes without its "(" and every "(" is closed
Balanced(s) ==
    LET opens == Outside(s, "(")
        closes == Outside(s, ")")
    IN /\ Cardinality(opens) = Cardinality(closes)
       /\ \A c \in closes :
              Cardinality({o \in opens : o < c}) >= Cardinality({d \in closes : d <= c})

RECURSIVE TreesOver(_, _)
\* the filter trees with exactly n nodes whose terms, left to right, are leaves
TreesOver(leaves, n) ==
    (IF Len(leaves) = 1 /\ n = 1 THEN {leaves[1]} ELSE {})
    \cup (IF n >= 2 THEN {Not(m) : m \in TreesOver(leaves, n - 1)} ELSE {})
    \cup UNION { {Operator(o, l, r) :
                     o \in {"And", "Or"},
                     l \in TreesOver(SubSeq(leaves, 1, i), a),
                     r \in TreesOver(SubSeq(leaves, i + 1, Len(leaves)), n - 1 - a)} :
                 i \in 1..(Len(leaves) - 1), a \in 1..(n - 2) }

\* C9: for a filter tree whose terms all name filterable fields (and whose range
\* terms have a bound), the filter text is built structurally ('(l AND r)',
\* '(l OR r)', '!(x)', '(f >= a AND f <= b)', 'f >= a', 'f <= b'), a compiled
\* query carries it as the yql's ' AND ' suffix, its parentheses are balanced, and
\* no other tree over the same terms has that text.
C9_FilterRendering ==
    (op = "to_vespa_query" /\ passed_query[1].type \in {"tensor", "lexical"}
       /\ passed_query[1].filter # None /\ Renderable(passed_query[1].filter[1])) =>
        LET tree == passed_query[1].filter[1]
            term == _get_filter_term(index, passed_query[1])
            text == term.ret.s
            leaves == Leaves(tree)
        IN /\ term.raised = ""
           /\ outcome.raised = "" => EndsWith(Yql, " AND " \o text)
           /\ text = Structural(tree)
           /\ Balanced(text)
           /\ \A n \in 1..MaxNodes : \A other \in TreesOver(leaves, n) :
                  tree_to_filter_string(index, other).ret.s = text => other = tree

\* C9 witness: an And over an equality term and an Or of a two-bound range and a
\* negated lower-bound range was compiled
C9_Witness ==
    /\ Compiled
    /\ passed_query[1].filter
          = Some(Operator("And", EqualityTerm("title", "a(b"),
                          Operator("Or", RangeTerm("rank", Some(1), Some(2)),
                                         RangeTerm("rank", Some(1), None))))
    /\ EndsWith(Yql, " AND (marqo__filter_title contains \"a(b\" AND "
                        \o "((marqo__filter_rank >= 1 AND marqo__filter_rank <= 2) OR "
                        \o "marqo__filter_rank >= 1))")

\* the lexical queries of C10: no searchable_attributes, and some phrase
PhraseQuery(q) ==
    /\ q.type = "lexical" /\ q.searchable_attributes = None
    /\ Len(q.or_phrases) + Len(q.and_phrases) > 0
DefaultContains(phrases) ==
    [i \in 1..Len(phrases) |-> "default contains \"" \o phrases[i] \o "\""]
\* the match predicate C10 states
PhrasePredicate(q) ==
    LET weak == "weakAnd(" \o JoinStr(DefaultContains(q.or_phrases), ", ") \o ")"
        strict == JoinStr(DefaultContains(q.and_phrases), " AND ")
    IN IF Len(q.and_phrases) = 0 THEN weak
       ELSE IF Len(q.or_phrases) = 0 THEN strict
       ELSE weak \o " AND (" \o strict \o ")"
\* the yql text with this match predicate
YqlWith(q, predicate) ==
    "select " \o _get_select_attributes(q) \o " from " \o index.schema_name \o " where "
    \o predicate
    \o (IF q.filter = None THEN "" ELSE " AND " \o _get_filter_term(index, q).ret.s)

\* C10 (as claimed): the match predicate of a compiled lexical query without
\* searchable_attributes is 'weakAnd(default contains "o1", ...) AND (default
\* contains "a1" AND ...)', the weakAnd part alone with only or_phrases, and the
\* AND-joined part alone with only and_phrases.
C10_LexicalPhrases ==
    (Compiled /\ PhraseQuery(passed_query[1])) =>
        Yql = YqlWith(passed_query[1], PhrasePredicate(passed_query[1]))

\* C10 (amended): the same, on an index with at least one lexical field; on an
\* index with none the match predicate is 'False'.
C10_LexicalPhrasesOnLexicalIndex ==
    (Compiled /\ PhraseQuery(passed_query[1])) =>
        IF Len(lexical_field_map_keys(index)) > 0
        THEN Yql = YqlWith(passed_query[1], PhrasePredicate(passed_query[1]))
        ELSE Yql = YqlWith(passed_query[1], "False")

\* C10 witness: or_phrases cat, dog and and_phrases fast
C10_Witness ==
    /\ Compiled
    /\ passed_query[1].or_phrases = <<"cat", "dog">>
    /\ passed_query[1].and_phrases = <<"fast">>
    /\ Yql = "select * from idx_a where weakAnd(default contains \"cat\", "
             \o "default contains \"dog\") AND (default contains \"fast\")"

\* the flat fields of the index stored under both a lexical and a filter name
DualFields ==
    {f \in Range(index.fields) : f.lexical_field_name # "" /\ f.filter_field_name # ""}
\* the fields of the Vespa document the caller holds
WireFields == Get(vespa_document[1], _VESPA_DOC_FIELDS)
\* the Vespa document holds both physical copies of f
BothCopies(f) ==
    /\ Has(vespa_document[1], _VESPA_DOC_FIELDS)
    /\ Has(WireFields, f.lexical_field_name) /\ Has(WireFields, f.filter_field_name)

\* C11: to_vespa_document writes a field that has a lexical and a filter name to
\* both with the same value; to_marqo_document on a Vespa document holding both
\* copies fails with VespaDocumentParsingError when they differ, and when they
\* are equal it gives the one logical field with that value (and succeeds when
\* the document holds nothing but the id and the copies), whichever copy is first.
C11_DualStorage ==
    /\ (op = "to_vespa_document" /\ outcome.raised = "") =>
          \A f \in DualFields :
              Has(marqo_document[1], f.name) =>
                  /\ BothCopies(f)
                  /\ Get(WireFields, f.lexical_field_name) = Get(marqo_document[1], f.name)
                  /\ Get(WireFields, f.filter_field_name) = Get(marqo_document[1], f.name)
    /\ op = "to_marqo_document" =>
          \A f \in DualFields :
              BothCopies(f) =>
                  LET lexical == Get(WireFields, f.lexical_field_name)
                      filter == Get(WireFields, f.filter_field_name)
                  IN IF lexical = filter
                     THEN /\ outcome.raised = "" =>
                                /\ Get(outcome.ret, f.name) = lexical
                                /\ ~ Has(outcome.ret, f.lexical_field_name)
                                /\ ~ Has(outcome.ret, f.filter_field_name)
                          /\ Range(Keys(WireFields))
                                \subseteq {FIELD_ID, f.lexical_field_name, f.filter_field_name}
                             => outcome.raised = ""
                     ELSE outcome.raised = "VespaDocumentParsingError"

\* C11 witness: a row with the filter copy ahead of an equal lexical copy was read
\* back as the one field title
C11_Witness ==
    /\ op = "to_marqo_document" /\ wire_source = "backend"
    /\ Has(vespa_document[1], _VESPA_DOC_FIELDS)
    /\ WireFields = PyDict(<<Entry("marqo__filter_title", PyStr("hello")),
                             Entry("marqo__lexical_title", PyStr("hello"))>>)
    /\ outcome = Return(PyDict(<<Entry("title", PyStr("hello"))>>))

\* the compiled query carries the two overrides of an exact search
ExactOverrides ==
    /\ Has(outcome.ret, "ranking.softtimeout.enable")
    /\ Get(outcome.ret, "ranking.softtimeout.enable") = PyBool(FALSE)
    /\ Has(outcome.ret, "timeout")
    /\ Get(outcome.ret, "timeout") = PyStr("300s")
NoOverride ==
    ~ Has(outcome.ret, "ranking.softtimeout.enable") /\ ~ Has(outcome.ret, "timeout")

\* C12: a compiled query has 'ranking.softtimeout.enable' = false and 'timeout' =
\* '300s' when it is a tensor query with approximate = false, and neither key
\* when it is an approximate tensor query or a lexical query.
C12_ExactSearchTimeout ==
    Compiled =>
        IF passed_query[1].type = "tensor" /\ ~ passed_query[1].approximate
        THEN ExactOverrides
        ELSE NoOverride

\* C12 witness: an exact tensor query over both tensor fields was compiled with
\* the overrides
C12_Witness ==
    /\ Compiled
    /\ passed_query[1].type = "tensor" /\ ~ passed_query[1].approximate
    /\ passed_query[1].searchable_attributes = Some(<<"desc", "title">>)
    /\ ExactOverrides
    /\ Get(outcome.ret, "hits") = PyInt(passed_query[1].limit)

\* the last step compiled a tensor or lexical query without ef_search
CompiledPlain ==
    /\ op \in {"to_vespa_query", "full_search", "page"}
    /\ outcome.raised = ""
    /\ passed_query[1].type \in {"tensor", "lexical"}
    /\ passed_query[1].ef_search = None
\* the paginated search has fetched its last page
PagingDone ==
    /\ op \in {"full_search", "page"}
    /\ paging.page_num = Pages(paging.num_docs, paging.page_size)

\* C13: a compiled tensor or lexical query without ef_search has hits = limit and
\* offset = offset, and no nearestNeighbor clause with targetHits below offset +
\* limit; every page query of a paginated search compiles, and once the pages
\* (limit = p, offset = k*p, k = 0 .. ceil(N/p)-1) are fetched from a backend
\* that returns the slice [offset, offset + hits) of the N ranked matches, they
\* hold as many hits as the one query with limit = N and offset = 0 returned.
C13_Pagination ==
    /\ (CompiledPlain /\ passed_query[1].offset # None) =>
          LET q == passed_query[1]
          IN /\ Get(outcome.ret, "hits") = PyInt(q.limit)
             /\ Get(outcome.ret, "offset") = PyInt(q.offset[1])
             /\ \A n \in 0..(q.limit + q.offset[1] - 1) :
                    Count(Yql, "targetHits:" \o ToString(n) \o ",") = 0
             /\ (q.type = "tensor" /\ Len(SearchedTensorFields(q)) > 0) =>
                    Count(Yql, "targetHits:") = Len(SearchedTensorFields(q))
    /\ op \in {"full_search", "page"} => outcome.raised = ""
    /\ PagingDone => paging.hits = paging.full_hits

\* C13 witness: a tensor search with 4 matching documents was fetched in two
\* pages of 3, which held 3 + 1 hits, as many as the full search
C13_Witness ==
    /\ PagingDone
    /\ paging.type = "tensor" /\ paging.num_docs = 4 /\ paging.page_size = 3
    /\ Len(tensor_field_map_keys(index)) > 0
    /\ passed_query[1].offset = Some(3)
    /\ Get(outcome.ret, "hits") = PyInt(3)
    /\ paging.hits = 4 /\ paging.full_hits = 4

SearchedLexicalFields(q) ==
    IF q.searchable_attributes = None THEN lexical_field_map_keys(index)
    ELSE q.searchable_attributes[1]
\* the query has no field to search
EmptySearch(q) ==
    \/ q.type = "tensor" /\ Len(SearchedTensorFields(q)) = 0
    \/ q.type = "lexical" /\ Len(SearchedLexicalFields(q)) = 0
\* the text of the yql after its first ' where '
Where ==
    LET at == CHOOSE i \in 1..Len(Yql) :
                  /\ SubSeq(Yql, i, i + 6) = " where "
                  /\ \A j \in 1..(i - 1) : SubSeq(Yql, j, j + 6) # " where "
    IN SubSeq(Yql, at + 7, Len(Yql))
\* nothing but the empty set of fields stands in the way of compiling q
OtherwiseValid(q) ==
    /\ AttributesResolve(q) /\ ScoreModifiersResolve(q)
    /\ q.filter # None => Renderable(q.filter[1])

\* C14: a tensor or lexical query with no field to search (searchable_attributes
\* empty, or omitted on an index without tensor / lexical fields) compiles, for
\* every limit and offset, and its where clause is 'False', followed only by
\* ' AND ' and the filter when the query has one.
C14_EmptySearchableSet ==
    (op = "to_vespa_query" /\ EmptySearch(passed_query[1])) =>
        LET q == passed_query[1]
        IN /\ OtherwiseValid(q) => outcome.raised = ""
           /\ outcome.raised = "" =>
                 Where = "False" \o (IF q.filter = None THEN ""
                                     ELSE " AND " \o Structural(q.filter[1]))

\* C14 witness: a tensor query with searchable_attributes = [], limit 2 and offset 1
\* on an index with tensor fields compiled to 'where False'
C14_Witness ==
    /\ Compiled
    /\ passed_query[1].type = "tensor"
    /\ passed_query[1].searchable_attributes = Some(<<>>)
    /\ Len(tensor_field_map_keys(index)) > 0
    /\ passed_query[1].limit = 2 /\ passed_query[1].offset = Some(1)
    /\ Yql = "select * from " \o index.schema_name \o " where False"
    /\ Get(outcome.ret, "hits") = PyInt(2) /\ Get(outcome.ret, "offset") = PyInt(1)

\* the position a block key stands for
KeyRank(k) == CHOOSE n \in 0..(MaxChunks + 1) : ToString(n) = k
\* the vectors of a block map by ascending key
AscendingValues(blocks) ==
    [i \in 1..Len(blocks.items) |->
        LET item == CHOOSE e \in Range(blocks.items) :
                        Cardinality({o \in Range(blocks.items) : KeyRank(o.k) < KeyRank(e.k)}) = i - 1
        IN item.val]
\* value is a sparse block map: a dict whose 'blocks' is a dict
IsBlockMap(value) ==
    value.kind = "dict" /\ Has(value, "blocks") /\ Get(value, "blocks").kind = "dict"

\* C15: when to_marqo_document reads the embeddings field of a tensor field, a
\* sparse block map gives the embedding list of its vectors by ascending key,
\* whatever the order of the keys in the map, and a value of any other shape
\* fails with VespaDocumentParsingError.
C15_EmbeddingFlattening ==
    (op = "to_marqo_document" /\ Has(vespa_document[1], _VESPA_DOC_FIELDS)) =>
        \A i \in 1..Len(index.tensor_fields) :
            LET tensor_field == index.tensor_fields[i]
                value == Get(WireFields, tensor_field.embeddings_field_name)
            IN Has(WireFields, tensor_field.embeddings_field_name) =>
                  IF IsBlockMap(value)
                  THEN outcome.raised = "" =>
                          Get(Get(Get(outcome.ret, MARQO_DOC_TENSORS), tensor_field.name),
                              MARQO_DOC_EMBEDDINGS)
                            = PyList(AscendingValues(Get(value, "blocks")))
                  ELSE outcome.raised = "VespaDocumentParsingError"

\* the highlights of the Marqo document returned
Highlights == Get(outcome.ret, MARQO_DOC_HIGHLIGHTS)

\* C16: with the winning tensor field and its closest cell key determined, the
\* highlights are exactly [{field name: chunks[i]}] when the key is an integer i
\* with 0 <= i < len(chunks) of the field's chunk list in the row; they are []
\* when the chunk field is absent from the row; and the extraction fails with
\* VespaDocumentParsingError in every other case (key not an integer, negative
\* index, index past the end, chunk field not a list).
C16_HighlightChunkLookup ==
    (HighlightsAsked /\ WithCells # {} /\ AllPaired) =>
        LET winner == index.tensor_fields[Winner]
            key == Get(Get(RowMatchFeatures, closest_feature(winner)), "cells").items[1].k
            parsed == ParseInt(key)
            absent == ~ Has(RowFields, winner.chunk_field_name)
            chunks == Get(RowFields, winner.chunk_field_name)
        IN IF absent
           THEN IF parsed # None
                THEN outcome.raised = "" /\ Highlights = PyList(<<>>)
                ELSE \/ outcome.raised = "VespaDocumentParsingError"
                     \/ outcome.raised = "" /\ Highlights = PyList(<<>>)
           ELSE IF /\ parsed # None /\ chunks.kind = "list"
                   /\ parsed[1] >= 0 /\ parsed[1] < Len(chunks.items)
                THEN /\ outcome.raised = ""
                     /\ Highlights
                          = PyList(<<PyDict(<<Entry(winner.name, chunks.items[parsed[1] + 1].val)>>)>>)
                ELSE outcome.raised = "VespaDocumentParsingError"

\* the document handed to to_vespa_document, without its tensor section
WithoutTensors(doc) ==
    LET Flat(e) == e.k # MARQO_DOC_TENSORS IN PyDict(SelectSeq(doc.items, Flat))
\* the first entry of the document's tensor section names a tensor field of the
\* index and its value does not have exactly the keys chunks and embeddings
FirstTensorMisshapen(doc) ==
    /\ Has(doc, MARQO_DOC_TENSORS)
    /\ Len(Get(doc, MARQO_DOC_TENSORS).items) > 0
    /\ LET entry == Get(doc, MARQO_DOC_TENSORS).items[1]
       IN /\ entry.k \in Range(tensor_field_map_keys(index))
          /\ Range(Keys(entry.val)) # {MARQO_DOC_CHUNKS, MARQO_DOC_EMBEDDINGS}

\* C17: to_vespa_document on a document whose flat fields are accepted and
\* whose tensor section has a known tensor field without exactly the two parts
\* chunks and embeddings returns no Vespa document and fails with a failure
\* that is none of InternalError (internal inconsistency), InvalidFieldNameError
\* (unknown field) and InvalidDataTypeError (type mismatch).
C17_TensorPayloadShape ==
    (/\ op = "to_vespa_document"
     /\ to_vespa_document(index, WithoutTensors(marqo_document[1])).raised = ""
     /\ FirstTensorMisshapen(marqo_document[1])) =>
        /\ outcome.raised
              \notin {"", "InternalError", "InvalidFieldNameError", "InvalidDataTypeError"}
        /\ vespa_document = None

\* the places where sep stands in s outside the quoted literals
SeparatorsIn(s, sep) ==
    LET quotes == Delimiters(s)
    IN {i \in 1..(Len(s) - Len(sep) + 1) :
           /\ SubSeq(s, i, i + Len(sep) - 1) = sep
           /\ Cardinality({d \in quotes : d < i}) % 2 = 0}
\* the pieces of s between those places, left to right
SplitOutside(s, sep) ==
    LET at == SeparatorsIn(s, sep)
        starts == {1} \cup {i + Len(sep) : i \in at}
        ends == {i - 1 : i \in at} \cup {Len(s)}
        Nth(k) == CHOOSE a \in starts : Cardinality({b \in starts : b < a}) = k - 1
        EndOf(a) == CHOOSE e \in ends : e >= a - 1 /\ \A o \in ends : o >= a - 1 => e <= o
    IN [k \in 1..Cardinality(starts) |-> SubSeq(s, Nth(k), EndOf(Nth(k)))]
\* 'field contains "phrase"' over the lexical storage name of the field
ContainsAtom(field, phrase) ==
    field_map(index, field).lexical_field_name \o " contains \"" \o phrase \o "\""
\* the meaning of a text of atoms joined by ' AND ' and ' OR ' where AND binds
\* tighter than OR, under the set of atoms that hold for a document
MeansUnder(text, holding) ==
    \E either \in Range(SplitOutside(text, " OR ")) :
        \A atom \in Range(SplitOutside(either, " AND ")) : atom \in holding
\* some searched field contains the phrase
SomeFieldContains(q, phrase, holding) ==
    \E f \in Range(q.searchable_attributes[1]) : ContainsAtom(f, phrase) \in holding
\* the atoms of the query: every searched field with every phrase
AtomsOf(q) ==
    {ContainsAtom(f, p) : f \in Range(q.searchable_attributes[1]),
                          p \in Range(q.or_phrases) \cup Range(q.and_phrases)}
\* the match predicate of the compiled yql: the where clause without the filter
MatchPredicate ==
    LET q == passed_query[1]
        suffix == IF q.filter = None THEN ""
                  ELSE " AND " \o _get_filter_term(index, q).ret.s
    IN SubSeq(Where, 1, Len(Where) - Len(suffix))
\* the text between 'weakAnd(' and its closing parenthesis ("" without weakAnd)
WeakAndArguments(predicate) ==
    IF StartsWith(predicate, "weakAnd(")
    THEN LET close == CHOOSE c \in Outside(predicate, ")") :
                          \A o \in Outside(predicate, ")") : c <= o
         IN SubSeq(predicate, 9, close - 1)
    ELSE ""
\* the conjunctive part: what stands in '(...)' after 'weakAnd(...) AND ', or
\* the whole predicate when there is no weakAnd
ConjunctivePart(predicate) ==
    IF StartsWith(predicate, "weakAnd(")
    THEN LET close == CHOOSE c \in Outside(predicate, ")") :
                          \A o \in Outside(predicate, ")") : c <= o
         IN IF close = Len(predicate) THEN ""
            ELSE SubSeq(predicate, close + Len(" AND (") + 1, Len(predicate) - 1)
    ELSE predicate
\* a compiled lexical query restricted to two or more lexical fields, with two
\* or more phrases
GroupedQuery ==
    /\ Compiled
    /\ LET q == passed_query[1]
       IN /\ q.type = "lexical" /\ q.searchable_attributes # None
          /\ Len(q.searchable_attributes[1]) >= 2
          /\ Len(q.or_phrases) + Len(q.and_phrases) >= 2

\* C18: in the predicate of a compiled lexical query restricted to two or more
\* fields with two or more phrases, read with AND binding tighter than OR, the
\* conjunctive part holds for a document exactly when every and-phrase is
\* contained in some searched field, and the i-th weakAnd argument holds
\* exactly when some searched field contains the i-th or-phrase.
C18_LexicalGrouping ==
    GroupedQuery =>
        LET q == passed_query[1]
            arguments == SplitOutside(WeakAndArguments(MatchPredicate), ", ")
            conjunctive == ConjunctivePart(MatchPredicate)
        IN /\ Len(q.or_phrases) > 0 => Len(arguments) = Len(q.or_phrases)
           /\ \A holding \in SUBSET AtomsOf(q) :
                 /\ \A i \in 1..Len(q.or_phrases) :
                        MeansUnder(arguments[i], holding)
                            <=> SomeFieldContains(q, q.or_phrases[i], holding)
                 /\ Len(q.and_phrases) > 0 =>
                        (MeansUnder(conjunctive, holding)
                            <=> \A p \in Range(q.and_phrases) :
                                    SomeFieldContains(q, p, holding))

RECURSIVE EscapedText(_)
\* s with a backslash put before each backslash and each double quote
EscapedText(s) ==
    IF Len(s) = 0 THEN ""
    ELSE (IF Char(s, 1) \in {"\\", "\""} THEN "\\" \o Char(s, 1) ELSE Char(s, 1))
         \o EscapedText(SubSeq(s, 2, Len(s)))
\* the contents of the quoted literals of s, left to right: a literal runs from
\* an unescaped double quote to the next one
LiteralsOf(s) ==
    LET quotes == Delimiters(s)
        Nth(k) == CHOOSE d \in quotes : Cardinality({e \in quotes : e < d}) = k - 1
    IN [k \in 1..(Cardinality(quotes) \div 2) |->
           SubSeq(s, Nth(2 * k - 1) + 1, Nth(2 * k) - 1)]
RECURSIVE Repeated(_, _)
\* each string of strs, n times in a row
Repeated(strs, n) ==
    IF Len(strs) = 0 THEN <<>>
    ELSE [i \in 1..n |-> Head(strs)] \o Repeated(Tail(strs), n)
\* the caller's strings that the yql of q quotes, left to right: each phrase
\* once per searched field (once without searchable_attributes), then the
\* values of the filter's equality terms
QuotedStrings(q) ==
    LET per == IF q.searchable_attributes = None THEN 1
               ELSE Len(q.searchable_attributes[1])
        phrases == IF q.type = "lexical" /\ ~EmptySearch(q)
                   THEN Repeated(q.or_phrases \o q.and_phrases, per)
                   ELSE <<>>
        IsEquality(term) == term.node = "EqualityTerm"
        terms == IF q.filter = None THEN <<>>
                 ELSE SelectSeq(Leaves(q.filter[1]), IsEquality)
    IN phrases \o [i \in 1..Len(terms) |-> terms[i].value]
\* no equality term of the filter is on a bool field (whose value is stored as 1 or 0)
NoBoolEquality(q) ==
    q.filter # None =>
        \A term \in Range(Leaves(q.filter[1])) :
            term.node = "EqualityTerm" => field_map(index, term.field).type # "bool"

\* C19: in the yql of a compiled tensor or lexical query, the quoted literals
\* are, left to right, exactly the caller's phrases and filter equality values
\* with each backslash and each double quote escaped, and every literal is
\* closed: no caller string ends its literal early or leaves one open.
C19_QuotingOfUserText ==
    (Compiled /\ passed_query[1].type \in {"tensor", "lexical"}
       /\ NoBoolEquality(passed_query[1])) =>
        LET strings == QuotedStrings(passed_query[1])
        IN /\ Cardinality(Delimiters(Yql)) % 2 = 0
           /\ LiteralsOf(Yql) = [i \in 1..Len(strings) |-> EscapedText(strings[i])]

\* C20: the yql of a compiled tensor or lexical query has a match predicate
\* that is not empty between 'where ' and the ' AND <filter>' suffix, so its
\* where clause is not empty and does not begin with ' AND'; this includes a
\* lexical query without any phrase.
C20_WellFormedWhere ==
    (Compiled /\ passed_query[1].type \in {"tensor", "lexical"}) =>
        /\ MatchPredicate # ""
        /\ Where # ""
        /\ ~StartsWith(Where, " AND")

====
